---- MODULE Spec2Model ----
(***************************************************************************)
(* A model of the arbolta gate-level simulator: bits, signals with toggle  *)
(* counters, standard cells, hierarchical hardware modules with ports, and *)
(* the Design facade (eval, eval_clocked, reset_clocked).                  *)
(*                                                                         *)
(* The signal list and a cell's input array, whose indices are data, are   *)
(* functions over 0..n-1.  Every other Vec (bit vectors, port index lists, *)
(* component lists, connection tables) is a sequence: element i of the Vec *)
(* is element i+1 of the sequence.  Bit::Zero / Bit::One are 0 and 1.      *)
(***************************************************************************)
EXTENDS Integers, Sequences, FiniteSets, TLC

VARIABLES
  design,   \* the Design under simulation: [module, clock, reset]
  nested,   \* a second HardwareModule driven in lockstep (hierarchical form)
  net,      \* a stand-alone Signal (signal.rs unit level)
  writes,   \* the value `net` was created with, then each value written to it
  result,   \* the last operation, the error it returned ("Ok" if none) and,
            \* for a Design or port call, a log of what it did or was given
  lastclk,  \* the clock bit read by the latest eval of the DFF module
  script,   \* position in the DFF clocking scenario, -1 once off script
  nops      \* operations applied so far (bounds the adder and Design runs)

vars == <<design, nested, net, writes, result, lastclk, script, nops>>

(***************************************************************************)
(* Bounds of the model.                                                    *)
(***************************************************************************)
MaxInputs == 3
MaxToggles == 2
MaxGateToggles == 1
MaxWrites == 6
MaxAdderOps == 3
MaxBits == 2
MaxDesignOps == 5
MaxDim == 4
MaxShapeToggles == 3
MaxVecBits == 8
MaxWideBits == 10

(***************************************************************************)
(* Program constants.                                                      *)
(***************************************************************************)
CONNECTION_SIZE == 8
STATE_SIZE == 2
U8_BITS == 8
ADDER_BITS == 4

Bits == {0, 1}

(***************************************************************************)
(* bit.rs: Bit and its operators.                                          *)
(***************************************************************************)
Bit_not(b) == IF b = 0 THEN 1 ELSE 0

Bit_bitand(a, b) == IF a = 1 /\ b = 1 THEN 1 ELSE 0

Bit_bitor(a, b) == IF a = 0 /\ b = 0 THEN 0 ELSE 1

Bit_bitxor(a, b) == IF a = b THEN 0 ELSE 1

RECURSIVE Pow2(_)
Pow2(n) == IF n = 0 THEN 1 ELSE 2 * Pow2(n - 1)

(***************************************************************************)
(* signal.rs: Signal is Constant(bit) or Net{name, index, value, counters}.*)
(***************************************************************************)
Signal_new_constant(value) == [kind |-> "Constant", value |-> value]

Signal_new_net_from(index, value) ==
  [kind |-> "Net", name |-> "", index |-> index, value |-> value,
   toggle_count_rising |-> 0, toggle_count_falling |-> 0]

Signal_new_net(index) == Signal_new_net_from(index, 0)

Signal_set_name(s, name) ==
  IF s.kind = "Constant" THEN s ELSE [s EXCEPT !.name = name]

Signal_get_index(s) == IF s.kind = "Constant" THEN 0 ELSE s.index

Signal_get_value(s) == s.value

\* A reset that clears the value and keeps the counters.
Signal_reset_value(s) ==
  IF s.kind = "Constant" THEN s ELSE [s EXCEPT !.value = 0]

Signal_reset(s) ==
  IF s.kind = "Constant" THEN s
  ELSE [s EXCEPT !.toggle_count_rising = 0,
                 !.toggle_count_falling = 0,
                 !.value = 0]

\* A set_value without the early return on an unchanged value: every write of
\* a 1 counts as a rise and every write of a 0 as a fall.
Signal_set_value_eager(s, val) ==
  IF s.kind = "Constant" THEN s
  ELSE IF val = 1
       THEN [s EXCEPT !.toggle_count_rising = @ + 1, !.value = val]
  ELSE [s EXCEPT !.toggle_count_falling = @ + 1, !.value = val]

\* A set_value that also stores into a Constant.
Signal_set_value_stored(s, val) ==
  IF s.kind = "Constant" THEN [s EXCEPT !.value = val]
  ELSE IF s.value = 0 /\ val = 1
       THEN [s EXCEPT !.toggle_count_rising = @ + 1, !.value = val]
  ELSE IF s.value = 1 /\ val = 0
       THEN [s EXCEPT !.toggle_count_falling = @ + 1, !.value = val]
  ELSE s

Signal_set_value(s, val) ==
  IF s.kind = "Constant" THEN s
  ELSE IF s.value = 0 /\ val = 1
       THEN [s EXCEPT !.toggle_count_rising = @ + 1, !.value = val]
  ELSE IF s.value = 1 /\ val = 0
       THEN [s EXCEPT !.toggle_count_falling = @ + 1, !.value = val]
  ELSE s

Signal_get_toggle_count_rising(s) ==
  IF s.kind = "Constant" THEN 0 ELSE s.toggle_count_rising

Signal_get_toggle_count_falling(s) ==
  IF s.kind = "Constant" THEN 0 ELSE s.toggle_count_falling

Signal_get_total_toggle_count(s) ==
  IF s.kind = "Constant" THEN 0
  ELSE s.toggle_count_falling + s.toggle_count_rising

(***************************************************************************)
(* cell.rs: Cell and its evaluator.                                        *)
(***************************************************************************)
Functions ==
  {"Inverter", "And", "Nor", "Nand", "Xor", "Xnor", "Or", "DffPosEdge", "Buf"}

Cell_new(name, function, num_inputs, inputs, output) ==
  [name |-> name, function |-> function, state |-> <<0, 0>>,
   num_inputs |-> num_inputs,
   input_connections |->
     [i \in 0..(CONNECTION_SIZE - 1) |->
        IF i < Len(inputs) THEN inputs[i + 1] ELSE 0],
   output_connection |-> output]

\* A fold that leaves out the last input (`1..num_inputs - 1`).
RECURSIVE FoldInputs_short(_, _, _, _, _)
FoldInputs_short(fn, acc, cell, signals, i) ==
  IF i >= cell.num_inputs - 1 THEN acc
  ELSE LET bit == Signal_get_value(signals[cell.input_connections[i]])
           nxt == CASE fn \in {"And", "Nand"} -> Bit_bitand(acc, bit)
                    [] fn \in {"Or", "Nor"}   -> Bit_bitor(acc, bit)
                    [] OTHER                  -> Bit_bitxor(acc, bit)
       IN FoldInputs_short(fn, nxt, cell, signals, i + 1)

\* The loop `for bit in input_connections[1..num_inputs]`: acc folded from the
\* left with the binary operator of the function over inputs i..num_inputs-1.
RECURSIVE FoldInputs(_, _, _, _, _)
FoldInputs(fn, acc, cell, signals, i) ==
  IF i >= cell.num_inputs THEN acc
  ELSE LET bit == Signal_get_value(signals[cell.input_connections[i]])
           nxt == CASE fn \in {"And", "Nand"} -> Bit_bitand(acc, bit)
                    [] fn \in {"Or", "Nor"}   -> Bit_bitor(acc, bit)
                    [] OTHER                  -> Bit_bitxor(acc, bit)
       IN FoldInputs(fn, nxt, cell, signals, i + 1)

\* A level-sensitive latch in place of the edge detector: the DFF passes data
\* whenever the clock reads 1.
Cell_output_level(cell, signals) ==
  LET in0 == Signal_get_value(signals[cell.input_connections[0]])
      fn  == cell.function
  IN CASE fn = "Buf"      -> [bit |-> in0, state |-> cell.state]
       [] fn = "Inverter" -> [bit |-> Bit_not(in0), state |-> cell.state]
       [] fn \in {"And", "Or", "Xor"} ->
            [bit |-> FoldInputs(fn, in0, cell, signals, 1), state |-> cell.state]
       [] fn \in {"Nand", "Nor", "Xnor"} ->
            [bit |-> Bit_not(FoldInputs(fn, in0, cell, signals, 1)),
             state |-> cell.state]
       [] fn = "DffPosEdge" ->
            LET clock     == in0
                data      == Signal_get_value(signals[cell.input_connections[1]])
                last_data == cell.state[1]
                out == IF clock = 1 THEN data ELSE last_data
            IN [bit |-> out, state |-> <<out, clock>>]

\* The output bit and the cell's next state, before the write to the signal.
Cell_output(cell, signals) ==
  LET in0 == Signal_get_value(signals[cell.input_connections[0]])
      fn  == cell.function
  IN CASE fn = "Buf"      -> [bit |-> in0, state |-> cell.state]
       [] fn = "Inverter" -> [bit |-> Bit_not(in0), state |-> cell.state]
       [] fn \in {"And", "Or", "Xor"} ->
            [bit |-> FoldInputs(fn, in0, cell, signals, 1), state |-> cell.state]
       [] fn \in {"Nand", "Nor", "Xnor"} ->
            [bit |-> Bit_not(FoldInputs(fn, in0, cell, signals, 1)),
             state |-> cell.state]
       [] fn = "DffPosEdge" ->
            LET clock      == in0
                data       == Signal_get_value(signals[cell.input_connections[1]])
                last_data  == cell.state[1]
                last_clock == cell.state[2]
                out == IF clock = 1 /\ last_clock = 0 THEN data ELSE last_data
            IN [bit |-> out, state |-> <<out, clock>>]

\* Cell::eval: returns the updated cell and the updated signal list.
Cell_eval(cell, signals) ==
  LET o == Cell_output(cell, signals)
  IN [cell    |-> [cell EXCEPT !.state = o.state],
      signals |-> [signals EXCEPT ![cell.output_connection] =
                     Signal_set_value(@, o.bit)]]

Cell_reset(cell) ==
  IF cell.function = "DffPosEdge" THEN [cell EXCEPT !.state = <<0, 0>>] ELSE cell

(***************************************************************************)
(* bit.rs: BitVec and the integer conversions.  An integer type T is       *)
(* [bits, signed]; a value of T is the mathematical integer it denotes.    *)
(***************************************************************************)
U8 == [bits |-> U8_BITS, signed |-> FALSE]

I8 == [bits |-> U8_BITS, signed |-> TRUE]

TypeValues(T) ==
  IF T.signed THEN (0 - Pow2(T.bits - 1))..(Pow2(T.bits - 1) - 1)
  ELSE 0..(Pow2(T.bits) - 1)

\* A shift of the magnitude, as if a negative value were stored sign-and-magnitude.
ShrAnd1_magnitude(val, n) == ((IF val < 0 THEN 0 - val ELSE val) \div Pow2(n)) % 2

\* (val >> n) & T::one(): an arithmetic shift on a signed type.
ShrAnd1(val, n) == (val \div Pow2(n)) % 2

\* BitVec::int_to_bits_sized: Bit::from_int of a masked bit never fails.
BitVec_int_to_bits_sized(val, size) == [n \in 1..size |-> ShrAnd1(val, n - 1)]

BitVec_from_int_sized(val, size) == BitVec_int_to_bits_sized(val, size)

BitVec_from_int(val, T) == BitVec_int_to_bits_sized(val, T.bits)

\* A from_ints_sized that packs the last element first.
RECURSIVE BitVec_from_ints_sized_reversed(_, _)
BitVec_from_ints_sized_reversed(vals, elem_size) ==
  IF vals = <<>> THEN <<>>
  ELSE BitVec_from_ints_sized_reversed(Tail(vals), elem_size)
         \o BitVec_int_to_bits_sized(Head(vals), elem_size)

RECURSIVE BitVec_from_ints_sized(_, _)
BitVec_from_ints_sized(vals, elem_size) ==
  IF vals = <<>> THEN <<>>
  ELSE BitVec_int_to_bits_sized(Head(vals), elem_size)
         \o BitVec_from_ints_sized(Tail(vals), elem_size)

\* The pattern read as an unsigned number whatever the type.
PatternValue_unsigned(pat, T) ==
  LET RECURSIVE Sum(_)
      Sum(k) == IF k = T.bits THEN 0 ELSE pat[k] * Pow2(k) + Sum(k + 1)
  IN Sum(0)

\* The W-bit pattern of a value of T, and back.
PatternValue(pat, T) ==
  LET RECURSIVE Sum(_)
      Sum(k) == IF k = T.bits THEN 0 ELSE pat[k] * Pow2(k) + Sum(k + 1)
  IN IF T.signed /\ pat[T.bits - 1] = 1 THEN Sum(0) - Pow2(T.bits) ELSE Sum(0)

\* `val ^= x << i` on the pattern of val, for a one-bit x and i < T.bits.
XorShl(pat, x, i) == [pat EXCEPT ![i] = Bit_bitxor(@, x)]

\* BitVec::bits_to_int, as a build without overflow checks computes it: a
\* shift by i >= T.bits is a shift by i % T.bits there.
BitVec_bits_to_int(bits, T) ==
  LET sext == bits[Len(bits)] = 1 /\ T.signed
      RECURSIVE Loop(_, _)
      Loop(pat, i) ==
        IF i >= Len(bits) THEN pat
        ELSE Loop(XorShl(pat, IF sext THEN Bit_bitxor(bits[i + 1], 1)
                                      ELSE bits[i + 1], i % T.bits), i + 1)
      start == [k \in 0..(T.bits - 1) |-> IF sext THEN 1 ELSE 0]
  IN PatternValue(Loop(start, 0), T)

\* BitVec::bits_to_int in either build: with overflow checks (the debug
\* profile) the shift `<< i` panics at the first i >= T.bits, without them
\* (the release profile) it wraps.
BitVec_bits_to_int_build(bits, T, overflow_checks) ==
  IF overflow_checks /\ Len(bits) > T.bits
  THEN [err |-> "Panic", val |-> 0]
  ELSE [err |-> "Ok", val |-> BitVec_bits_to_int(bits, T)]

BitVec_to_int(bits, T) == BitVec_bits_to_int(bits, T)

\* bits.chunks(elem_size).map(bits_to_int): the last chunk may be short.
RECURSIVE BitVec_bits_to_ints(_, _, _)
BitVec_bits_to_ints(bits, elem_size, T) ==
  IF bits = <<>> THEN <<>>
  ELSE LET n == IF Len(bits) < elem_size THEN Len(bits) ELSE elem_size
       IN <<BitVec_bits_to_int(SubSeq(bits, 1, n), T)>>
            \o BitVec_bits_to_ints(SubSeq(bits, n + 1, Len(bits)), elem_size, T)

BitVec_to_ints_sized(bits, elem_size, T) == BitVec_bits_to_ints(bits, elem_size, T)

\* impl From<bool> for Bit and impl From<Bit> for bool.
Bit_from_bool(val) == IF val THEN 1 ELSE 0

Bit_into_bool(bit) == bit = 1

\* impl From<&[bool]> for BitVec: vals.iter().rev().
BitVec_from_bools(vals) ==
  [i \in 1..Len(vals) |-> Bit_from_bool(vals[Len(vals) + 1 - i])]

\* impl From<&BitVec> for Vec<bool>: bits.iter().rev().
BitVec_into_bools(bits) ==
  [i \in 1..Len(bits) |-> Bit_into_bool(bits[Len(bits) + 1 - i])]

\* BitVec::to_bool_ndarray_buffer on a contiguous buffer: buffer_slice[i] is
\* written from bits[i]; a buffer shorter than the BitVec is indexed out of
\* bounds, after its own length has been written.
BitVec_to_bool_ndarray_buffer(bits, buffer) ==
  [err |-> IF Len(buffer) < Len(bits) THEN "Panic" ELSE "Ok",
   buffer |-> [i \in 1..Len(buffer) |->
                 IF i <= Len(bits) THEN Bit_into_bool(bits[i]) ELSE buffer[i]]]

\* Display for BitVec: most significant bit leftmost.
BitVec_to_string(bits) ==
  [i \in 1..Len(bits) |-> IF bits[Len(bits) + 1 - i] = 1 THEN "1" ELSE "0"]

(***************************************************************************)
(* module/port.rs: Port.  A fallible operation returns [err, signals]      *)
(* (err = "Ok" on success); a getter returns its value.                    *)
(***************************************************************************)
Port_new(signal_idx_list, direction) ==
  [signal_idx_list |-> signal_idx_list,
   shape |-> <<1, Len(signal_idx_list)>>,
   direction |-> direction, signed |-> FALSE]

\* A set_shape that also takes a shape with more cells than the port has bits.
Port_set_shape_roomy(port, shape) ==
  IF shape[1] * shape[2] < Len(port.signal_idx_list)
  THEN [err |-> "Shape", port |-> port]
  ELSE [err |-> "Ok", port |-> [port EXCEPT !.shape = shape]]

\* Port::set_shape: returns [err, port].
Port_set_shape(port, shape) ==
  IF shape[1] * shape[2] # Len(port.signal_idx_list)
  THEN [err |-> "Shape", port |-> port]
  ELSE [err |-> "Ok", port |-> [port EXCEPT !.shape = shape]]

Port_get_bits(port, signals) ==
  [i \in 1..Len(port.signal_idx_list) |->
     Signal_get_value(signals[port.signal_idx_list[i]])]

Min(a, b) == IF a < b THEN a ELSE b

\* Writes that store the bits without going through Signal::set_value.
RECURSIVE WriteBits_raw(_, _, _, _, _)
WriteBits_raw(list, vals, signals, i, stop) ==
  IF i >= stop THEN signals
  ELSE WriteBits_raw(list, vals,
                     [signals EXCEPT ![list[i + 1]].value = vals[i + 1]],
                     i + 1, stop)

\* The writes of Port::set_bits, in index order.
RECURSIVE WriteBits(_, _, _, _, _)
WriteBits(list, vals, signals, i, stop) ==
  IF i >= stop THEN signals
  ELSE WriteBits(list, vals,
                 [signals EXCEPT ![list[i + 1]] = Signal_set_value(@, vals[i + 1])],
                 i + 1, stop)

\* A set_bits that writes whatever the direction.
Port_set_bits_any(port, vals, signals) ==
  [err |-> "Ok",
   signals |-> WriteBits(port.signal_idx_list, vals, signals, 0,
                         Min(Len(vals), Len(port.signal_idx_list)))]

Port_set_bits(port, vals, signals) ==
  IF port.direction = "Output" THEN [err |-> "Direction", signals |-> signals]
  ELSE [err |-> "Ok",
        signals |-> WriteBits(port.signal_idx_list, vals, signals, 0,
                              Min(Len(vals), Len(port.signal_idx_list)))]

Port_get_int(port, T, signals) == BitVec_to_int(Port_get_bits(port, signals), T)

Port_set_int(port, val, T, signals) ==
  IF port.direction = "Output" THEN [err |-> "Direction", signals |-> signals]
  ELSE Port_set_bits(port, BitVec_from_int(val, T), signals)

\* A get_int_vec that chunks by shape[0].
Port_get_int_vec_rows(port, T, signals) ==
  BitVec_to_ints_sized(Port_get_bits(port, signals), port.shape[1], T)

Port_get_int_vec(port, T, signals) ==
  BitVec_to_ints_sized(Port_get_bits(port, signals), port.shape[2], T)

\* A set_int_vec without the length test.
Port_set_int_vec_lenient(port, vals, T, signals) ==
  Port_set_bits(port, BitVec_from_ints_sized(vals, port.shape[2]), signals)

Port_set_int_vec(port, vals, T, signals) ==
  IF Len(vals) # port.shape[1] THEN [err |-> "Shape", signals |-> signals]
  ELSE Port_set_bits(port, BitVec_from_ints_sized(vals, port.shape[2]), signals)

Port_get_string(port, signals) == BitVec_to_string(Port_get_bits(port, signals))

(***************************************************************************)
(* module/hardware_module.rs: HardwareModule.  A component is              *)
(* [type |-> "Cell", cell] or [type |-> "Module", module].                 *)
(***************************************************************************)
EmptyMap == [x \in {} |-> 0]

HardwareModule_default ==
  [name |-> "", ports |-> EmptyMap, signals |-> EmptyMap,
   signal_map |-> EmptyMap, components |-> <<>>, component_map |-> EmptyMap,
   input_connections |-> <<>>, output_connections |-> <<>>]

CellComponent(cell) == [type |-> "Cell", cell |-> cell]

ModuleComponent(module) == [type |-> "Module", module |-> module]

NumSignals(m) == Cardinality(DOMAIN m.signals)

HardwareModule_get_signal_idx(m, name) ==
  IF name \in DOMAIN m.signal_map
  THEN [err |-> "Ok", val |-> m.signal_map[name]]
  ELSE [err |-> "MissingSignal", val |-> name]

\* idx == len passes the guard and indexes out of bounds: a panic.
HardwareModule_set_signal(m, idx, val) ==
  IF idx > NumSignals(m) THEN [err |-> "MissingSignalIndex", module |-> m]
  ELSE IF idx = NumSignals(m) THEN [err |-> "Panic", module |-> m]
  ELSE [err |-> "Ok",
        module |-> [m EXCEPT !.signals[idx] = Signal_set_value(@, val)]]

\* for (external_idx, internal_idx) in &module.input_connections
RECURSIVE PropagateInputs(_, _, _, _)
PropagateInputs(conns, parent_signals, child_signals, i) ==
  IF i > Len(conns) THEN child_signals
  ELSE LET bit == Signal_get_value(parent_signals[conns[i][1]])
       IN PropagateInputs(conns, parent_signals,
            [child_signals EXCEPT ![conns[i][2]] = Signal_set_value(@, bit)],
            i + 1)

\* An output copy that stops one connection early.
RECURSIVE PropagateOutputs_short(_, _, _, _)
PropagateOutputs_short(conns, child_signals, parent_signals, i) ==
  IF i >= Len(conns) THEN parent_signals
  ELSE LET bit == Signal_get_value(child_signals[conns[i][2]])
       IN PropagateOutputs_short(conns, child_signals,
            [parent_signals EXCEPT ![conns[i][1]] = Signal_set_value(@, bit)],
            i + 1)

\* for (external_idx, internal_idx) in &module.output_connections
RECURSIVE PropagateOutputs(_, _, _, _)
PropagateOutputs(conns, child_signals, parent_signals, i) ==
  IF i > Len(conns) THEN parent_signals
  ELSE LET bit == Signal_get_value(child_signals[conns[i][2]])
       IN PropagateOutputs(conns, child_signals,
            [parent_signals EXCEPT ![conns[i][1]] = Signal_set_value(@, bit)],
            i + 1)

\* An eval that visits the components last to first.
RECURSIVE HardwareModule_eval_reverse(_)
HardwareModule_eval_reverse(m) ==
  LET RECURSIVE Loop(_, _)
      Loop(mod, i) ==
        IF i < 1 THEN mod
        ELSE LET c == mod.components[i]
             IN IF c.type = "Cell"
                THEN LET r == Cell_eval(c.cell, mod.signals)
                     IN Loop([mod EXCEPT !.signals = r.signals,
                                         !.components[i] = CellComponent(r.cell)],
                             i - 1)
                ELSE LET fed == [c.module EXCEPT !.signals =
                                   PropagateInputs(c.module.input_connections,
                                                   mod.signals, @, 1)]
                         sub == HardwareModule_eval_reverse(fed)
                     IN Loop([mod EXCEPT
                                !.signals = PropagateOutputs(sub.output_connections,
                                                             sub.signals, @, 1),
                                !.components[i] = ModuleComponent(sub)],
                             i - 1)
  IN Loop(m, Len(m.components))

\* An eval that goes over the components a second time.
RECURSIVE HardwareModule_eval_again(_)
HardwareModule_eval_again(m) ==
  LET RECURSIVE Loop(_, _)
      Loop(mod, i) ==
        IF i > Len(mod.components) THEN mod
        ELSE LET c == mod.components[i]
             IN IF c.type = "Cell"
                THEN LET r == Cell_eval(c.cell, mod.signals)
                     IN Loop([mod EXCEPT !.signals = r.signals,
                                         !.components[i] = CellComponent(r.cell)],
                             i + 1)
                ELSE LET fed == [c.module EXCEPT !.signals =
                                   PropagateInputs(c.module.input_connections,
                                                   mod.signals, @, 1)]
                         sub == HardwareModule_eval_again(fed)
                     IN Loop([mod EXCEPT
                                !.signals = PropagateOutputs(sub.output_connections,
                                                             sub.signals, @, 1),
                                !.components[i] = ModuleComponent(sub)],
                             i + 1)
  IN Loop(Loop(m, 1), 1)

\* HardwareModule::eval: one pass over the components, in order.
RECURSIVE HardwareModule_eval(_)
HardwareModule_eval(m) ==
  LET RECURSIVE Loop(_, _)
      Loop(mod, i) ==
        IF i > Len(mod.components) THEN mod
        ELSE LET c == mod.components[i]
             IN IF c.type = "Cell"
                THEN LET r == Cell_eval(c.cell, mod.signals)
                     IN Loop([mod EXCEPT !.signals = r.signals,
                                         !.components[i] = CellComponent(r.cell)],
                             i + 1)
                ELSE LET fed == [c.module EXCEPT !.signals =
                                   PropagateInputs(c.module.input_connections,
                                                   mod.signals, @, 1)]
                         sub == HardwareModule_eval(fed)
                     IN Loop([mod EXCEPT
                                !.signals = PropagateOutputs(sub.output_connections,
                                                             sub.signals, @, 1),
                                !.components[i] = ModuleComponent(sub)],
                             i + 1)
  IN Loop(m, 1)

\* A reset that clears the module's own signals and cells but not its child
\* modules.
HardwareModule_reset_shallow(m) ==
  [m EXCEPT
     !.signals = [i \in DOMAIN m.signals |-> Signal_reset(m.signals[i])],
     !.components =
       [i \in 1..Len(m.components) |->
          IF m.components[i].type = "Cell"
          THEN CellComponent(Cell_reset(m.components[i].cell))
          ELSE m.components[i]]]

\* HardwareModule::reset: every owned signal, then every component.
RECURSIVE HardwareModule_reset(_)
HardwareModule_reset(m) ==
  [m EXCEPT
     !.signals = [i \in DOMAIN m.signals |-> Signal_reset(m.signals[i])],
     !.components =
       [i \in 1..Len(m.components) |->
          IF m.components[i].type = "Cell"
          THEN CellComponent(Cell_reset(m.components[i].cell))
          ELSE ModuleComponent(HardwareModule_reset(m.components[i].module))]]

\* The port accessors: MissingPort when the name is unknown, else the Port's
\* own result, a port error wrapped as ModuleError::Port(name, err).
HardwareModule_get_port_bits(m, name) ==
  IF name \in DOMAIN m.ports
  THEN [err |-> "Ok", val |-> Port_get_bits(m.ports[name], m.signals)]
  ELSE [err |-> "MissingPort", val |-> <<>>]

HardwareModule_set_port_bits(m, name, vals) ==
  IF name \in DOMAIN m.ports
  THEN LET r == Port_set_bits(m.ports[name], vals, m.signals)
       IN [err |-> r.err, module |-> [m EXCEPT !.signals = r.signals]]
  ELSE [err |-> "MissingPort", module |-> m]

HardwareModule_get_port_int(m, name, T) ==
  IF name \in DOMAIN m.ports
  THEN [err |-> "Ok", val |-> Port_get_int(m.ports[name], T, m.signals)]
  ELSE [err |-> "MissingPort", val |-> 0]

\* HardwareModule::get_module_port_int: the first child module named path[0]
\* answers for the rest of the path; with no such child the loop falls
\* through to MissingPort(name).
RECURSIVE HardwareModule_get_module_port_int(_, _, _, _)
HardwareModule_get_module_port_int(m, path, name, T) ==
  IF path = <<>> THEN HardwareModule_get_port_int(m, name, T)
  ELSE LET RECURSIVE Loop(_)
           Loop(i) ==
             IF i > Len(m.components) THEN [err |-> "MissingPort", val |-> 0]
             ELSE IF m.components[i].type = "Module"
                     /\ path[1] = m.components[i].module.name
                  THEN HardwareModule_get_module_port_int(m.components[i].module,
                                                          Tail(path), name, T)
                  ELSE Loop(i + 1)
       IN Loop(1)

HardwareModule_set_port_int(m, name, val, T) ==
  IF name \in DOMAIN m.ports
  THEN LET r == Port_set_int(m.ports[name], val, T, m.signals)
       IN [err |-> r.err, module |-> [m EXCEPT !.signals = r.signals]]
  ELSE [err |-> "MissingPort", module |-> m]

HardwareModule_get_port_int_vec(m, name, T) ==
  IF name \in DOMAIN m.ports
  THEN [err |-> "Ok", val |-> Port_get_int_vec(m.ports[name], T, m.signals)]
  ELSE [err |-> "MissingPort", val |-> <<>>]

HardwareModule_set_port_int_vec(m, name, vals, T) ==
  IF name \in DOMAIN m.ports
  THEN LET r == Port_set_int_vec(m.ports[name], vals, T, m.signals)
       IN [err |-> r.err, module |-> [m EXCEPT !.signals = r.signals]]
  ELSE [err |-> "MissingPort", module |-> m]

HardwareModule_get_port_string(m, name) ==
  IF name \in DOMAIN m.ports
  THEN [err |-> "Ok", val |-> Port_get_string(m.ports[name], m.signals)]
  ELSE [err |-> "MissingPort", val |-> <<>>]

HardwareModule_set_port_shape(m, name, shape) ==
  IF name \in DOMAIN m.ports
  THEN LET r == Port_set_shape(m.ports[name], shape)
       IN [err |-> r.err, module |-> [m EXCEPT !.ports[name] = r.port]]
  ELSE [err |-> "MissingPort", module |-> m]

HardwareModule_get_port_shape(m, name) ==
  IF name \in DOMAIN m.ports
  THEN [err |-> "Ok", val |-> m.ports[name].shape]
  ELSE [err |-> "MissingPort", val |-> <<0, 0>>]

\* python_bindings: PyDesign::get_port_shape over the design's module m.
PyDesign_get_port_shape(m, name) ==
  IF HardwareModule_get_port_shape(m, name).err = "Ok"
  THEN HardwareModule_get_port_shape(m, name)
  ELSE [err |-> "PyAttributeError", val |-> <<0, 0>>]

\* python_bindings: PyDesign::set_port_shape.  The element size is the
\* port's present shape[1] divided (usize, rounding down) by the number of
\* elements asked for; a division by 0 panics.
PyDesign_set_port_shape(m, name, shape) ==
  IF shape[1] # 1 THEN [err |-> "PyValueError", module |-> m]
  ELSE IF PyDesign_get_port_shape(m, name).err # "Ok"
       THEN [err |-> "PyAttributeError", module |-> m]
  ELSE IF shape[2] = 0 THEN [err |-> "Panic", module |-> m]
  ELSE \* (num_elems, elem_size) = (shape[1], internal_shape[1] / shape[1])
       IF HardwareModule_set_port_shape(
            m, name, <<shape[2], PyDesign_get_port_shape(m, name).val[2] \div shape[2]>>).err
            = "Ok"
       THEN HardwareModule_set_port_shape(
              m, name, <<shape[2], PyDesign_get_port_shape(m, name).val[2] \div shape[2]>>)
       ELSE [err |-> "PyAttributeError", module |-> m]

\* A toggle count that leaves no signal out.
RECURSIVE HardwareModule_get_total_toggle_count_all(_)
HardwareModule_get_total_toggle_count_all(m) ==
  LET RECURSIVE Own(_)
      Own(i) ==
        IF i \notin DOMAIN m.signals THEN 0
        ELSE Signal_get_total_toggle_count(m.signals[i]) + Own(i + 1)
      RECURSIVE Below(_)
      Below(i) ==
        IF i > Len(m.components) THEN 0
        ELSE (IF m.components[i].type = "Module"
              THEN HardwareModule_get_total_toggle_count_all(m.components[i].module)
              ELSE 0)
             + Below(i + 1)
  IN Own(0) + Below(1)

\* HardwareModule::get_total_toggle_count: the module's own signals whose
\* netlist index is not the internal side of one of its input connections,
\* then every child module.
RECURSIVE HardwareModule_get_total_toggle_count(_)
HardwareModule_get_total_toggle_count(m) ==
  LET RECURSIVE Own(_)
      Own(i) ==
        IF i \notin DOMAIN m.signals THEN 0
        ELSE (IF \E j \in 1..Len(m.input_connections) :
                    m.input_connections[j][2] = Signal_get_index(m.signals[i])
              THEN 0 ELSE Signal_get_total_toggle_count(m.signals[i]))
             + Own(i + 1)
      RECURSIVE Below(_)
      Below(i) ==
        IF i > Len(m.components) THEN 0
        ELSE (IF m.components[i].type = "Module"
              THEN HardwareModule_get_total_toggle_count(m.components[i].module)
              ELSE 0)
             + Below(i + 1)
  IN Own(0) + Below(1)

RECURSIVE HardwareModule_search_module_total_toggle_count(_, _)
HardwareModule_search_module_total_toggle_count(m, name) ==
  IF name = m.name
  THEN [err |-> "Ok", val |-> HardwareModule_get_total_toggle_count(m)]
  ELSE LET RECURSIVE Loop(_)
           Loop(i) ==
             IF i > Len(m.components) THEN [err |-> "MissingModule", val |-> name]
             ELSE IF m.components[i].type = "Cell" THEN Loop(i + 1)
             ELSE IF HardwareModule_search_module_total_toggle_count(m.components[i].module, name).err = "Ok"
                  THEN HardwareModule_search_module_total_toggle_count(m.components[i].module, name)
             ELSE Loop(i + 1)
       IN Loop(1)

\* breakdown[name] += count, inserting 0 first when the key is absent.
AddCount(breakdown, name, count) ==
  IF name \in DOMAIN breakdown
  THEN [breakdown EXCEPT ![name] = @ + count]
  ELSE breakdown @@ (name :> count)

\* A breakdown that counts the module's own cells only.
HardwareModule_get_cell_breakdown_own(m) ==
  LET RECURSIVE Loop(_, _)
      Loop(breakdown, i) ==
        IF i > Len(m.components) THEN breakdown
        ELSE IF m.components[i].type = "Cell"
             THEN Loop(AddCount(breakdown, m.components[i].cell.name, 1), i + 1)
        ELSE Loop(breakdown, i + 1)
  IN Loop(EmptyMap, 1)

RECURSIVE HardwareModule_get_cell_breakdown(_)
HardwareModule_get_cell_breakdown(m) ==
  LET RECURSIVE AddAll(_, _, _)
      AddAll(breakdown, sub, names) ==
        IF names = {} THEN breakdown
        ELSE LET cell_name == CHOOSE n \in names : TRUE
             IN AddAll(AddCount(breakdown, cell_name, sub[cell_name]), sub,
                       names \ {cell_name})
      RECURSIVE Loop(_, _)
      Loop(breakdown, i) ==
        IF i > Len(m.components) THEN breakdown
        ELSE IF m.components[i].type = "Cell"
             THEN Loop(AddCount(breakdown, m.components[i].cell.name, 1), i + 1)
        ELSE Loop(AddAll(breakdown,
                         HardwareModule_get_cell_breakdown(m.components[i].module),
                         DOMAIN HardwareModule_get_cell_breakdown(m.components[i].module)),
                  i + 1)
  IN Loop(EmptyMap, 1)

RECURSIVE HardwareModule_search_module_cell_breakdown(_, _)
HardwareModule_search_module_cell_breakdown(m, name) ==
  IF name = m.name
  THEN [err |-> "Ok", val |-> HardwareModule_get_cell_breakdown(m)]
  ELSE LET RECURSIVE Loop(_)
           Loop(i) ==
             IF i > Len(m.components) THEN [err |-> "MissingModule", val |-> name]
             ELSE IF m.components[i].type = "Cell" THEN Loop(i + 1)
             ELSE IF HardwareModule_search_module_cell_breakdown(m.components[i].module, name).err = "Ok"
                  THEN HardwareModule_search_module_cell_breakdown(m.components[i].module, name)
             ELSE Loop(i + 1)
       IN Loop(1)

(***************************************************************************)
(* module/design.rs: Design.  clock and reset are Option<SignalIndex>:     *)
(* {} is None and {i} is Some(i).                                          *)
(***************************************************************************)
\* cell.rs: CellInfo, CellLibrary and default_cell_library().  Areas are whole
\* numbers of area units here.
CellInfo(name, function, area, num_inputs) ==
  [name |-> name, function |-> function, area |-> area, num_inputs |-> num_inputs]

default_cell_library ==
  ("BUF" :> CellInfo("BUF", "Buf", 4, 1))
    @@ ("NOT" :> CellInfo("NOT", "Inverter", 2, 1))
    @@ ("NAND" :> CellInfo("NAND", "Nand", 4, 2))
    @@ ("NOR" :> CellInfo("NOR", "Nor", 4, 2))
    @@ ("DFF" :> CellInfo("DFF", "DffPosEdge", 8, 2))

CellLibrary_get_cell_area(cells, cell_name) ==
  IF cell_name \in DOMAIN cells
  THEN [err |-> "Ok", val |-> cells[cell_name].area]
  ELSE [err |-> "NotFound", val |-> cell_name]

\* A breakdown area that adds each cell's area once, whatever its count.
CellLibrary_get_cell_breakdown_area_flat(cells, breakdown) ==
  LET RECURSIVE Loop(_, _)
      Loop(total_area, names) ==
        IF names = {} THEN [err |-> "Ok", val |-> total_area]
        ELSE IF \E n \in names : n \notin DOMAIN cells
             THEN CellLibrary_get_cell_area(cells, CHOOSE n \in names : n \notin DOMAIN cells)
        ELSE LET cell_name == CHOOSE n \in names : TRUE
             IN Loop(total_area + cells[cell_name].area, names \ {cell_name})
  IN Loop(0, DOMAIN breakdown)

\* CellLibrary::get_cell_breakdown_area: the loop runs in the HashMap's order
\* and stops at the first name the library lacks; the libraries used here
\* lack at most one name of a breakdown, so the error does not depend on it.
CellLibrary_get_cell_breakdown_area(cells, breakdown) ==
  LET RECURSIVE Loop(_, _)
      Loop(total_area, names) ==
        IF names = {} THEN [err |-> "Ok", val |-> total_area]
        ELSE IF \E n \in names : n \notin DOMAIN cells
             THEN CellLibrary_get_cell_area(cells, CHOOSE n \in names : n \notin DOMAIN cells)
        ELSE LET cell_name == CHOOSE n \in names : TRUE
             IN Loop(total_area + breakdown[cell_name] * cells[cell_name].area,
                     names \ {cell_name})
  IN Loop(0, DOMAIN breakdown)

\* Design::from_module(module, default_cell_library()).
Design_from_module(module) ==
  [module |-> module, clock |-> {}, reset |-> {}, cell_library |-> default_cell_library]

Design_get_module_breakdown(d, name) ==
  HardwareModule_search_module_cell_breakdown(d.module, name)

Design_get_module_area(d, name) ==
  IF Design_get_module_breakdown(d, name).err # "Ok"
  THEN Design_get_module_breakdown(d, name)
  ELSE CellLibrary_get_cell_breakdown_area(d.cell_library,
                                           Design_get_module_breakdown(d, name).val)

Design_set_clock(d, name) ==
  LET r == HardwareModule_get_signal_idx(d.module, name)
  IN IF r.err = "Ok" THEN [err |-> "Ok", design |-> [d EXCEPT !.clock = {r.val}]]
     ELSE [err |-> r.err, design |-> d]

Design_set_reset(d, name) ==
  LET r == HardwareModule_get_signal_idx(d.module, name)
  IN IF r.err = "Ok" THEN [err |-> "Ok", design |-> [d EXCEPT !.reset = {r.val}]]
     ELSE [err |-> r.err, design |-> d]

TheIndex(opt) == CHOOSE i \in opt : TRUE

\* The bit on an optional signal, -1 when it is None.
Probe(m, opt) == IF opt = {} THEN -1 ELSE Signal_get_value(m.signals[TheIndex(opt)])

\* One primitive step of a clocked operation, as seen from outside: the step,
\* the bit it writes (-1 for an eval) and the clock and reset bits it starts from.
Step(d, m, op, val) ==
  [op |-> op, val |-> val, clk |-> Probe(m, d.clock), rst |-> Probe(m, d.reset)]

\* A clocked operation is a straight line of statements over the module, each
\* an eval or a set_signal on the clock or the reset.  Its result so far is
\* [err, module, log]; a failing set_signal (the `?`) ends it.
Statement(d, acc, st) ==
  IF st[1] = "eval"
  THEN [err |-> "Ok", module |-> HardwareModule_eval(acc.module),
        log |-> Append(acc.log, Step(d, acc.module, "eval", -1))]
  ELSE HardwareModule_set_signal(
         acc.module, TheIndex(IF st[1] = "set_clock" THEN d.clock ELSE d.reset), st[2])
         @@ [log |-> Append(acc.log, Step(d, acc.module, st[1], st[2]))]

RECURSIVE Statements(_, _, _)
Statements(d, acc, sts) ==
  IF sts = <<>> \/ acc.err # "Ok" THEN acc
  ELSE Statements(d, Statement(d, acc, Head(sts)), Tail(sts))

Entry(d) == [err |-> "Ok", module |-> d.module, log |-> <<>>]

\* The body of Design::eval_clocked, entered with the module in acc.
EvalClockedFrom(d, acc) ==
  IF acc.err # "Ok" THEN acc
  ELSE IF d.clock = {} THEN [acc EXCEPT !.err = "MissingSignal(clock)"]
  ELSE Statements(d, acc, << <<"eval", -1>>, <<"eval", -1>>, <<"eval", -1>>,
                             <<"set_clock", 1>>, <<"eval", -1>>,
                             <<"set_clock", 0>>, <<"eval", -1>> >>)

\* An eval_clocked that runs its settling evals before it looks for the clock.
Design_eval_clocked_late(d) ==
  EvalClockedFrom(d, Statements(d, Entry(d), << <<"eval", -1>> >>))

\* Design::eval_clocked: returns [err, module, log].
Design_eval_clocked(d) == EvalClockedFrom(d, Entry(d))

\* A reset_clocked that deasserts the reset before the clock edge.
Design_reset_clocked_early(d) ==
  IF d.reset = {} THEN [Entry(d) EXCEPT !.err = "MissingSignal(reset)"]
  ELSE Statements(d,
         EvalClockedFrom(d, Statements(d, Entry(d),
                                       << <<"set_reset", 1>>, <<"set_reset", 0>> >>)),
         << <<"eval", -1>> >>)

\* Design::reset_clocked: returns [err, module, log].
Design_reset_clocked(d) ==
  IF d.reset = {} THEN [Entry(d) EXCEPT !.err = "MissingSignal(reset)"]
  ELSE Statements(d,
         EvalClockedFrom(d, Statements(d, Entry(d), << <<"set_reset", 1>> >>)),
         << <<"set_reset", 0>>, <<"eval", -1>> >>)

(***************************************************************************)
(* The modules simulated.                                                  *)
(***************************************************************************)
VARIABLE_ALPHABET == <<"a", "b", "c", "d", "e">>

\* tests/test_module.rs: a single cell over fresh nets 0..num_inputs-1 with one
\* width-1 input port per input and the output port on net num_inputs.
cell_module_from_function(function, num_inputs) ==
  [HardwareModule_default EXCEPT
     !.signals = [i \in 0..num_inputs |-> Signal_new_net(i)],
     !.ports =
       [n \in {VARIABLE_ALPHABET[i + 1] : i \in 0..num_inputs} |->
          LET i == CHOOSE k \in 0..num_inputs : VARIABLE_ALPHABET[k + 1] = n
          IN [signal_idx_list |-> <<i>>, shape |-> <<1, 1>>,
              direction |-> IF i < num_inputs THEN "Input" ELSE "Output",
              signed |-> FALSE]],
     !.components =
       <<CellComponent(Cell_new("", function, num_inputs,
                                [i \in 1..num_inputs |-> i - 1], num_inputs))>>]

\* tests/test_cell.rs: the cell over Constant inputs and one output net.
cell_over_constants(function, inputs) ==
  [HardwareModule_default EXCEPT
     !.signals = [i \in 0..Len(inputs) |->
                    IF i < Len(inputs) THEN Signal_new_constant(inputs[i + 1])
                    ELSE Signal_new_net(i)],
     !.components =
       <<CellComponent(Cell_new("", function, Len(inputs),
                                [i \in 1..Len(inputs) |-> i - 1], Len(inputs)))>>]

\* A net as Netlist::generate_module installs it: Signal::new_net, then set_name.
NamedNet(index, name) == Signal_set_name(Signal_new_net(index), name)

BitName(net_name, k) == net_name \o "[" \o ToString(k) \o "]"

\* A library cell instance: Cell::from(cell_info), then the connections.
LibCell(name, function, inputs, output) ==
  CellComponent(Cell_new(name, function, Len(inputs), inputs, output))

\* The nine NAND cells of a full adder over the given signal indices, in
\* topological order; n holds the seven internal nets.
FullAdderCells(a, b, cin, s, cout, n) ==
  << LibCell("NAND", "Nand", <<a, b>>, n[1]),
     LibCell("NAND", "Nand", <<a, n[1]>>, n[2]),
     LibCell("NAND", "Nand", <<b, n[1]>>, n[3]),
     LibCell("NAND", "Nand", <<n[2], n[3]>>, n[4]),
     LibCell("NAND", "Nand", <<n[4], cin>>, n[5]),
     LibCell("NAND", "Nand", <<n[4], n[5]>>, n[6]),
     LibCell("NAND", "Nand", <<cin, n[5]>>, n[7]),
     LibCell("NAND", "Nand", <<n[6], n[7]>>, s),
     LibCell("NAND", "Nand", <<n[5], n[1]>>, cout) >>

RECURSIVE Flatten(_)
Flatten(seqs) == IF seqs = <<>> THEN <<>> ELSE Head(seqs) \o Flatten(Tail(seqs))

\* Signal indices of the adder's top module: bits 0 and 1 are the constants,
\* then op0_i, op1_i, sum_o (one bit wider) and the carries between stages.
Op0Bit(k) == 2 + k

Op1Bit(k) == 2 + ADDER_BITS + k

SumBit(k) == 2 + 2 * ADDER_BITS + k

CarryBit(k) == 2 + 3 * ADDER_BITS + k

StageCin(k) == IF k = 0 THEN 0 ELSE CarryBit(k)

StageCout(k) == IF k = ADDER_BITS - 1 THEN SumBit(ADDER_BITS) ELSE CarryBit(k + 1)

AdderPorts ==
  [n \in {"op0_i", "op1_i", "sum_o"} |->
     CASE n = "op0_i" -> Port_new([k \in 1..ADDER_BITS |-> Op0Bit(k - 1)], "Input")
       [] n = "op1_i" -> Port_new([k \in 1..ADDER_BITS |-> Op1Bit(k - 1)], "Input")
       [] n = "sum_o" ->
            Port_new([k \in 1..(ADDER_BITS + 1) |-> SumBit(k - 1)], "Output")]

AdderTopSignal(i) ==
  CASE i = 0 -> Signal_new_constant(0)
    [] i = 1 -> Signal_new_constant(1)
    [] i >= Op0Bit(0) /\ i < Op1Bit(0) -> NamedNet(i, BitName("op0_i", i - Op0Bit(0)))
    [] i >= Op1Bit(0) /\ i < SumBit(0) -> NamedNet(i, BitName("op1_i", i - Op1Bit(0)))
    [] i >= SumBit(0) /\ i <= SumBit(ADDER_BITS) ->
         NamedNet(i, BitName("sum_o", i - SumBit(0)))
    [] OTHER -> NamedNet(i, BitName("carry", i - CarryBit(0)))

SignalMap(signals) ==
  [n \in {signals[i].name : i \in {j \in DOMAIN signals : signals[j].kind = "Net"}} |->
     CHOOSE i \in DOMAIN signals : signals[i].kind = "Net" /\ signals[i].name = n]

\* The flat 4-bit adder: every stage's cells in the top module, whose signal
\* list also holds the seven internal nets of each stage.
FlatInternal(k, j) == CarryBit(ADDER_BITS) + 7 * k + (j - 1)

FlatAdder ==
  LET signals ==
        [i \in 0..(FlatInternal(ADDER_BITS, 1) - 1) |->
           IF i < CarryBit(ADDER_BITS) THEN AdderTopSignal(i)
           ELSE NamedNet(i, BitName("n", i - CarryBit(ADDER_BITS)))]
  IN [HardwareModule_default EXCEPT
        !.name = "adder",
        !.ports = AdderPorts,
        !.signals = signals,
        !.signal_map = SignalMap(signals),
        !.components =
          Flatten([k \in 1..ADDER_BITS |->
                     FullAdderCells(Op0Bit(k - 1), Op1Bit(k - 1), StageCin(k - 1),
                                    SumBit(k - 1), StageCout(k - 1),
                                    [j \in 1..7 |-> FlatInternal(k - 1, j)])])]

\* The full_adder submodule: constants, then a, b, cin, s, cout, then the
\* internal nets; its connection tables are filled in by the parent.
FullAdder(k) ==
  LET names == <<"a", "b", "cin", "s", "cout">>
      signals ==
        [i \in 0..13 |->
           CASE i = 0 -> Signal_new_constant(0)
             [] i = 1 -> Signal_new_constant(1)
             [] i \in 2..6 -> NamedNet(i, names[i - 1])
             [] OTHER -> NamedNet(i, BitName("n", i - 7))]
  IN [HardwareModule_default EXCEPT
        !.name = "full_adder",
        !.ports = [n \in {"a", "b", "cin", "s", "cout"} |->
                     LET i == CHOOSE j \in 2..6 : names[j - 1] = n
                     IN Port_new(<<i>>, IF i <= 4 THEN "Input" ELSE "Output")],
        !.signals = signals,
        !.signal_map = SignalMap(signals),
        !.components = FullAdderCells(2, 3, 4, 5, 6, [j \in 1..7 |-> 6 + j]),
        !.input_connections =
          << <<Op0Bit(k), 2>>, <<Op1Bit(k), 3>>, <<StageCin(k), 4>> >>,
        !.output_connections = << <<StageCout(k), 6>>, <<SumBit(k), 5>> >>]

\* The hierarchical 4-bit adder: one full_adder instance per stage.
NestedAdder ==
  LET signals == [i \in 0..(CarryBit(ADDER_BITS) - 1) |-> AdderTopSignal(i)]
  IN [HardwareModule_default EXCEPT
        !.name = "adder",
        !.ports = AdderPorts,
        !.signals = signals,
        !.signal_map = SignalMap(signals),
        !.components = [k \in 1..ADDER_BITS |-> ModuleComponent(FullAdder(k - 1))]]

(***************************************************************************)
(* The operations, as steps on `design`.  Every step records in `result`   *)
(* the operation and what it returned.  Where nothing else bounds the run, *)
(* a step that would push a toggle counter past a cap is not taken.        *)
(***************************************************************************)
RECURSIVE WithinToggles(_, _)
WithinToggles(m, cap) ==
  /\ \A i \in DOMAIN m.signals :
       /\ Signal_get_toggle_count_rising(m.signals[i]) <= cap
       /\ Signal_get_toggle_count_falling(m.signals[i]) <= cap
  /\ \A i \in 1..Len(m.components) :
       m.components[i].type = "Module" => WithinToggles(m.components[i].module, cap)

NoNet == Signal_new_constant(0)

InputPorts(m) == {n \in DOMAIN m.ports : m.ports[n].direction = "Input"}

OutputPorts(m) == {n \in DOMAIN m.ports : m.ports[n].direction = "Output"}

DoSetPortInt(name, val, T) ==
  LET r == HardwareModule_set_port_int(design.module, name, val, T)
  IN /\ design' = [design EXCEPT !.module = r.module]
     /\ result' = [op |-> "set_port_int", err |-> r.err]

DoEval ==
  LET m == HardwareModule_eval(design.module)
  IN /\ design' = [design EXCEPT !.module = m]
     /\ result' = [op |-> "eval", err |-> "Ok"]

Fresh == [op |-> "new", err |-> "Ok"]

Returns(op, err, log) == result' = [op |-> op, err |-> err, log |-> log]

(***************************************************************************)
(* SpecGate: one combinational cell, as tests/test_module.rs and           *)
(* tests/test_cell.rs build it, written through its ports and evaluated.   *)
(***************************************************************************)
OneInputFunctions == {"Buf", "Inverter"}

ManyInputFunctions == {"And", "Or", "Nand", "Nor", "Xor", "Xnor"}

GateShapes ==
  {<<fn, 1>> : fn \in OneInputFunctions}
    \cup {<<fn, n>> : fn \in ManyInputFunctions, n \in 2..MaxInputs}

InitGate ==
  /\ \E sh \in GateShapes :
       \/ design = Design_from_module(cell_module_from_function(sh[1], sh[2]))
       \/ \E inputs \in [1..sh[2] -> Bits] :
            design = Design_from_module(cell_over_constants(sh[1], inputs))
  /\ nested = HardwareModule_default
  /\ net = NoNet
  /\ writes = <<>>
  /\ result = Fresh
  /\ lastclk = 0
  /\ script = 0
  /\ nops = 0

GateSetPortInt ==
  /\ \E name \in DOMAIN design.module.ports, val \in Bits :
       DoSetPortInt(name, val, U8)
  /\ WithinToggles(design'.module, MaxGateToggles)
  /\ UNCHANGED <<nested, net, writes, lastclk, script, nops>>

GateEval ==
  /\ DoEval
  /\ WithinToggles(design'.module, MaxGateToggles)
  /\ UNCHANGED <<nested, net, writes, lastclk, script, nops>>

NextGate == GateSetPortInt \/ GateEval

SpecGate == InitGate /\ [][NextGate]_vars

\* The single cell of the gate module, the bits on its inputs and on its output.
GateCell == design.module.components[1].cell

GateInput(i) == Signal_get_value(design.module.signals[GateCell.input_connections[i]])

GateOnes == Cardinality({i \in 0..(GateCell.num_inputs - 1) : GateInput(i) = 1})

GateOutput == Signal_get_value(design.module.signals[GateCell.output_connection])

TruthTable(fn) ==
  CASE fn = "Buf"      -> GateInput(0)
    [] fn = "Inverter" -> 1 - GateInput(0)
    [] fn = "And"      -> IF GateOnes = GateCell.num_inputs THEN 1 ELSE 0
    [] fn = "Nand"     -> IF GateOnes = GateCell.num_inputs THEN 0 ELSE 1
    [] fn = "Or"       -> IF GateOnes > 0 THEN 1 ELSE 0
    [] fn = "Nor"      -> IF GateOnes > 0 THEN 0 ELSE 1
    [] fn = "Xor"      -> GateOnes % 2
    [] fn = "Xnor"     -> 1 - (GateOnes % 2)

\* C1: after an eval of a single-cell module the output net carries the truth
\* table of the cell's function over the bits on its inputs: input 0 for BUF,
\* its negation for INV, the AND / OR / XOR of all N inputs for AND / OR / XOR
\* and the negation of that for NAND / NOR / XNOR.
C1_TruthTables ==
  result.op = "eval" => GateOutput = TruthTable(GateCell.function)

\* A 3-input NAND whose inputs were all driven to 1 through set_port_int and
\* whose output, raised by an earlier eval, has fallen back to 0.
C1_Witness ==
  /\ result.op = "eval"
  /\ GateCell.function = "Nand"
  /\ GateCell.num_inputs = 3
  /\ GateOnes = 3
  /\ design.module.ports # EmptyMap
  /\ Signal_get_toggle_count_falling(design.module.signals[3]) = 1

(***************************************************************************)
(* SpecDff: the single DFF_POSEDGE module of tests/test_module.rs, port a  *)
(* the clock, port b the data and port c the output, under any sequence of *)
(* port writes and evals.  `lastclk` is the clock bit the previous eval    *)
(* read (0 before the first eval) and `script` follows the clocking        *)
(* scenario step by step.                                                  *)
(***************************************************************************)
Scenario ==
  << <<"set_port_int", "b", 1>>, <<"set_port_int", "a", 0>>, <<"eval", "", 0>>,
     <<"set_port_int", "a", 1>>, <<"eval", "", 0>>,
     <<"set_port_int", "b", 0>>, <<"set_port_int", "a", 1>>, <<"eval", "", 0>>,
     <<"set_port_int", "a", 0>>, <<"eval", "", 0>>,
     <<"set_port_int", "a", 1>>, <<"eval", "", 0>> >>

\* The output the scenario expects after each of its evals.
ScenarioQ == (3 :> 0) @@ (5 :> 1) @@ (8 :> 1) @@ (10 :> 1) @@ (12 :> 0)

Advance(op) ==
  IF script >= 0 /\ script < Len(Scenario) /\ Scenario[script + 1] = op
  THEN script + 1 ELSE -1

DffClk == Signal_get_value(design.module.signals[0])

DffD == Signal_get_value(design.module.signals[1])

DffQ == Signal_get_value(design.module.signals[2])

DffState == design.module.components[1].cell.state

InitDff ==
  /\ design = Design_from_module(cell_module_from_function("DffPosEdge", 2))
  /\ nested = HardwareModule_default
  /\ net = NoNet
  /\ writes = <<>>
  /\ result = Fresh
  /\ lastclk = 0
  /\ script = 0
  /\ nops = 0

DffSetPortInt ==
  /\ \E name \in DOMAIN design.module.ports, val \in Bits :
       /\ DoSetPortInt(name, val, U8)
       /\ script' = Advance(<<"set_port_int", name, val>>)
  /\ WithinToggles(design'.module, MaxToggles)
  /\ UNCHANGED <<nested, net, writes, lastclk, nops>>

DffEval ==
  /\ DoEval
  /\ WithinToggles(design'.module, MaxToggles)
  /\ lastclk' = DffClk
  /\ script' = Advance(<<"eval", "", 0>>)
  /\ UNCHANGED <<nested, net, writes, nops>>

NextDff == DffSetPortInt \/ DffEval

SpecDff == InitDff /\ [][NextDff]_vars

\* C2: an eval of the DFF puts the data bit on q when it reads clock = 1 and the
\* previous eval read clock = 0, and otherwise leaves q as it was, and then
\* holds (q, clock) as its state; no other step changes q; and the clocking
\* scenario (d=1,clk=0 -> 0; clk=1 -> 1; d=0,clk=1 -> 1; clk=0 -> 1; clk=1 -> 0)
\* reads the expected q after each of its evals.
C2_DffEdge ==
  /\ [][/\ result'.op = "eval" =>
             /\ DffQ' = IF DffClk = 1 /\ lastclk = 0 THEN DffD ELSE DffQ
             /\ DffState' = <<DffQ', DffClk>>
        /\ result'.op # "eval" => DffQ' = DffQ]_vars
  /\ [](script \in DOMAIN ScenarioQ => DffQ = ScenarioQ[script])

\* The whole scenario has run: q has risen on the first clock edge and fallen
\* on the second.
C2_Witness ==
  /\ script = Len(Scenario)
  /\ result.op = "eval"
  /\ Signal_get_toggle_count_falling(design.module.signals[2]) = 1

(***************************************************************************)
(* SpecAdder: the 4-bit adder of tests/test_synth.rs in its flat form      *)
(* (`design`) and in its hierarchical form (`nested`), given the same port *)
(* writes and the same evals.                                              *)
(***************************************************************************)
InitAdder ==
  /\ design = Design_from_module(FlatAdder)
  /\ nested = NestedAdder
  /\ net = NoNet
  /\ writes = <<>>
  /\ result = Fresh
  /\ lastclk = 0
  /\ script = 0
  /\ nops = 0

AdderSetPortInt ==
  /\ nops < MaxAdderOps
  /\ \E name \in InputPorts(design.module), val \in 0..(Pow2(ADDER_BITS) - 1) :
       /\ DoSetPortInt(name, val, U8)
       /\ nested' = HardwareModule_set_port_int(nested, name, val, U8).module
  /\ nops' = nops + 1
  /\ UNCHANGED <<net, writes, lastclk, script>>

AdderEval ==
  /\ nops < MaxAdderOps
  /\ DoEval
  /\ nested' = HardwareModule_eval(nested)
  /\ nops' = nops + 1
  /\ UNCHANGED <<net, writes, lastclk, script>>

NextAdder == AdderSetPortInt \/ AdderEval

SpecAdder == InitAdder /\ [][NextAdder]_vars

PortInt(m, name) == HardwareModule_get_port_int(m, name, U8).val

\* C3: after an eval the hierarchical adder shows on every output port the
\* bits the flat adder shows, and in both forms sum_o reads op0_i + op1_i.
C3_NestedEqualsFlat ==
  result.op = "eval" =>
    /\ \A p \in OutputPorts(design.module) :
         HardwareModule_get_port_bits(nested, p)
           = HardwareModule_get_port_bits(design.module, p)
    /\ PortInt(design.module, "sum_o")
         = PortInt(design.module, "op0_i") + PortInt(design.module, "op1_i")
    /\ PortInt(nested, "sum_o") = PortInt(nested, "op0_i") + PortInt(nested, "op1_i")

\* 15 + 1: the carry has rippled through every stage of both forms.
C3_Witness ==
  /\ result.op = "eval"
  /\ PortInt(nested, "op0_i") = 15
  /\ PortInt(nested, "op1_i") = 1
  /\ PortInt(nested, "sum_o") = 16
  /\ PortInt(design.module, "sum_o") = 16

(***************************************************************************)
(* SpecNet: one Net, created with either value, under set_value writes.    *)
(***************************************************************************)
InitNet ==
  /\ \E value \in Bits :
       /\ net = Signal_new_net_from(0, value)
       /\ writes = <<value>>
  /\ design = Design_from_module(HardwareModule_default)
  /\ nested = HardwareModule_default
  /\ result = Fresh
  /\ lastclk = 0
  /\ script = 0
  /\ nops = 0

NetSetValue ==
  /\ Len(writes) <= MaxWrites
  /\ \E val \in Bits :
       /\ net' = Signal_set_value(net, val)
       /\ writes' = Append(writes, val)
  /\ result' = [op |-> "set_value", err |-> "Ok"]
  /\ UNCHANGED <<design, nested, lastclk, script, nops>>

NextNet == NetSetValue

SpecNet == InitNet /\ [][NextNet]_vars

\* The places in a sequence of values where the value goes from `from` to `to`.
Transitions(w, from, to) ==
  {i \in 1..(Len(w) - 1) : w[i] = from /\ w[i + 1] = to}

\* C4: after any sequence of writes to a Net its rising counter is the number
\* of 0-to-1 transitions of the sequence and its falling counter the number of
\* 1-to-0 transitions, the total toggle count is their sum, the Net holds the
\* value written last, and a write of the value the Net already holds changes
\* neither its value nor a counter.
C4_ToggleCounters ==
  /\ [](/\ Signal_get_toggle_count_rising(net) = Cardinality(Transitions(writes, 0, 1))
        /\ Signal_get_toggle_count_falling(net) = Cardinality(Transitions(writes, 1, 0))
        /\ Signal_get_total_toggle_count(net)
             = Signal_get_toggle_count_rising(net) + Signal_get_toggle_count_falling(net)
        /\ Signal_get_value(net) = writes[Len(writes)])
  /\ [][writes'[Len(writes')] = Signal_get_value(net) => net' = net]_vars

\* A Net that has risen twice and fallen, and has also been written the value
\* it already held.
C4_Witness ==
  /\ Signal_get_toggle_count_rising(net) = 2
  /\ Signal_get_toggle_count_falling(net) >= 1
  /\ \E i \in 1..(Len(writes) - 1) : writes[i] = writes[i + 1]

(***************************************************************************)
(* SpecDesign: a Design over a two-level registered module, driven through *)
(* the whole Design / HardwareModule interface.                            *)
(*   top:   g = NOR(d, rst);  q1 = DFF(clk, g);  stage(q1)                *)
(*   stage: q = DFF(clk, d)                                                *)
(***************************************************************************)
\* A module as Netlist::generate_module lays it out: Constant 0 and 1 in slots
\* 0 and 1, then one named Net per netlist bit.
NetlistSignals(names) ==
  [i \in 0..(Len(names) + 1) |->
     CASE i = 0 -> Signal_new_constant(0)
       [] i = 1 -> Signal_new_constant(1)
       [] OTHER -> NamedNet(i, names[i - 1])]

StageModule ==
  LET signals == NetlistSignals(<<"clk", "d", "q">>)
  IN [HardwareModule_default EXCEPT
        !.name = "stage",
        !.ports = ("clk" :> Port_new(<<2>>, "Input")) @@ ("d" :> Port_new(<<3>>, "Input"))
                    @@ ("q" :> Port_new(<<4>>, "Output")),
        !.signals = signals,
        !.signal_map = SignalMap(signals),
        !.components = <<LibCell("DFF", "DffPosEdge", <<2, 3>>, 4)>>,
        !.input_connections = << <<2, 2>>, <<7, 3>> >>,
        !.output_connections = << <<5, 4>> >>]

TopModule ==
  LET signals == NetlistSignals(<<"clk", "rst", "d", "q", "g", "q1">>)
  IN [HardwareModule_default EXCEPT
        !.name = "top",
        !.ports = ("clk" :> Port_new(<<2>>, "Input")) @@ ("rst" :> Port_new(<<3>>, "Input"))
                    @@ ("d" :> Port_new(<<4>>, "Input"))
                    @@ ("q" :> Port_new(<<5>>, "Output")),
        !.signals = signals,
        !.signal_map = SignalMap(signals),
        !.components =
          << LibCell("NOR", "Nor", <<4, 3>>, 6),
             LibCell("DFF", "DffPosEdge", <<2, 6>>, 7),
             ModuleComponent(StageModule) >>]

\* The names a clock or a reset is bound to: a primary input, or the net "q"
\* that the stage drives.
ClockNames == {"clk", "q"}

ResetNames == {"rst", "q"}

InitDesign ==
  /\ design = Design_from_module(TopModule)
  /\ result = [op |-> "new", err |-> "Ok", log |-> <<>>]
  /\ nested = HardwareModule_default
  /\ net = NoNet
  /\ writes = <<>>
  /\ lastclk = 0
  /\ script = 0
  /\ nops = 0

\* Every step installs the design the call leaves behind.
Leaves(d) ==
  /\ nops < MaxDesignOps
  /\ nops' = nops + 1
  /\ design' = d
  /\ UNCHANGED <<nested, net, writes, lastclk, script>>

SetClock ==
  \E name \in ClockNames :
    LET r == Design_set_clock(design, name)
    IN Leaves(r.design) /\ Returns("set_clock", r.err, <<>>)

SetReset ==
  \E name \in ResetNames :
    LET r == Design_set_reset(design, name)
    IN Leaves(r.design) /\ Returns("set_reset", r.err, <<>>)

Eval ==
  /\ Leaves([design EXCEPT !.module = HardwareModule_eval(@)])
  /\ Returns("eval", "Ok", <<>>)

EvalClocked ==
  \E r \in {Design_eval_clocked(design)} :
    Leaves([design EXCEPT !.module = r.module]) /\ Returns("eval_clocked", r.err, r.log)

ResetClocked ==
  \E r \in {Design_reset_clocked(design)} :
    Leaves([design EXCEPT !.module = r.module]) /\ Returns("reset_clocked", r.err, r.log)

\* design.module.reset(); the log keeps the module the call was applied to.
Reset ==
  /\ Leaves([design EXCEPT !.module = HardwareModule_reset(@)])
  /\ Returns("reset", "Ok", <<design.module>>)

SetPortInt ==
  \E name \in InputPorts(design.module), val \in Bits :
    LET r == HardwareModule_set_port_int(design.module, name, val, U8)
    IN Leaves([design EXCEPT !.module = r.module]) /\ Returns("set_port_int", r.err, <<>>)

NextDesign ==
  \/ SetClock
  \/ SetReset
  \/ Eval
  \/ EvalClocked
  \/ ResetClocked
  \/ Reset
  \/ SetPortInt

SpecDesign == InitDesign /\ [][NextDesign]_vars

\* A module tree in which every Net is 0 with both counters 0 and every DFF
\* holds (0, 0).
RECURSIVE AllClear(_)
AllClear(m) ==
  /\ \A i \in DOMAIN m.signals :
       m.signals[i].kind = "Net" =>
         /\ Signal_get_value(m.signals[i]) = 0
         /\ Signal_get_toggle_count_rising(m.signals[i]) = 0
         /\ Signal_get_toggle_count_falling(m.signals[i]) = 0
  /\ \A i \in 1..Len(m.components) :
       LET c == m.components[i]
       IN IF c.type = "Module" THEN AllClear(c.module)
          ELSE c.cell.function = "DffPosEdge" => c.cell.state = <<0, 0>>

\* Every Constant of the tree `before` is the same signal in the tree m.
RECURSIVE ConstantsKept(_, _)
ConstantsKept(m, before) ==
  /\ \A i \in DOMAIN before.signals :
       before.signals[i].kind = "Constant" => m.signals[i] = before.signals[i]
  /\ \A i \in 1..Len(before.components) :
       before.components[i].type = "Module" =>
         ConstantsKept(m.components[i].module, before.components[i].module)

\* C5: after HardwareModule.reset(), from any state, every Net of the module
\* and of every descendant module has value 0 and rising = falling = 0, every
\* DFF_POSEDGE cell in the tree has state (0,0), and every Constant signal
\* keeps its bit.
C5_Reset ==
  result.op = "reset" =>
    /\ AllClear(design.module)
    /\ ConstantsKept(design.module, result.log[1])

\* reset() has been applied to a tree in which the clock net had toggled and
\* the DFFs of the top module and of the stage held (1, 1).
C5_Witness ==
  /\ result.op = "reset"
  /\ Signal_get_toggle_count_rising(result.log[1].signals[2]) = 1
  /\ result.log[1].components[2].cell.state = <<1, 1>>
  /\ result.log[1].components[3].module.components[1].cell.state = <<1, 1>>
  /\ Signal_get_value(result.log[1].components[3].module.signals[4]) = 1

\* The evals of a clocked operation that read the clock at 1 after an eval that
\* read it at 0; `last` is the clock level of the last eval before the call.
ClockEdges(log, last) ==
  LET evals == SelectSeq(log, LAMBDA st : st.op = "eval")
  IN {i \in 1..Len(evals) :
        evals[i].clk = 1 /\ (IF i = 1 THEN last ELSE evals[i - 1].clk) = 0}

\* C6: every successful Design.eval_clocked() call, whatever value the clock
\* net holds on entry, produces exactly one rising edge of the clock: the clock
\* net's rising counter grows by exactly 1 during the call and the DFF_POSEDGE
\* driven by the clock sees exactly one eval with clock = 1 preceded by an eval
\* with clock = 0.
C6_OneRisingEdge ==
  [][(result'.op = "eval_clocked" /\ result'.err = "Ok") =>
       /\ Signal_get_toggle_count_rising(design'.module.signals[TheIndex(design.clock)])
            = Signal_get_toggle_count_rising(design.module.signals[TheIndex(design.clock)]) + 1
       /\ design.clock = {2} =>
            Cardinality(ClockEdges(result'.log, design.module.components[2].cell.state[2])) = 1
    ]_vars

\* The statements of a log, without the bits they read.
Ops(log) == [i \in 1..Len(log) |-> <<log[i].op, log[i].val>>]

\* The nets of a module that one of its cells or child modules writes on eval.
Driven(m) ==
  UNION {IF m.components[i].type = "Cell"
         THEN {m.components[i].cell.output_connection}
         ELSE {m.components[i].module.output_connections[j][1] :
                 j \in 1..Len(m.components[i].module.output_connections)} :
         i \in 1..Len(m.components)}

ResetClockedOrder ==
  << <<"set_reset", 1>>, <<"eval", -1>>, <<"eval", -1>>, <<"eval", -1>>,
     <<"set_clock", 1>>, <<"eval", -1>>, <<"set_clock", 0>>, <<"eval", -1>>,
     <<"set_reset", 0>>, <<"eval", -1>> >>

\* C7 as stated: a successful Design.reset_clocked() writes reset = 1, runs
\* the whole eval_clocked sequence (so the eval that sees the rising clock
\* edge reads reset = 1), writes reset = 0 and runs exactly one further eval;
\* on return the reset net reads 0 and the clock net reads 0.
C7_AsStated ==
  (result.op = "reset_clocked" /\ result.err = "Ok") =>
    /\ Ops(result.log) = ResetClockedOrder
    /\ result.log[6].rst = 1
    /\ Probe(design.module, design.reset) = 0
    /\ Probe(design.module, design.clock) = 0

\* C7: a successful Design.reset_clocked() performs, in this order: write
\* reset = 1; the whole eval_clocked sequence; write reset = 0; exactly one
\* further eval.  When no cell or child module drives the reset net, the eval
\* that follows the clock's write to 1 reads reset = 1 and the reset net reads
\* 0 on return; when none drives the clock net, the clock net reads 0 on
\* return.
C7_ResetClocked ==
  (result.op = "reset_clocked" /\ result.err = "Ok") =>
    /\ Ops(result.log) = ResetClockedOrder
    /\ TheIndex(design.reset) \notin Driven(design.module) =>
         /\ result.log[6].rst = 1
         /\ Probe(design.module, design.reset) = 0
    /\ TheIndex(design.clock) \notin Driven(design.module) =>
         Probe(design.module, design.clock) = 0

\* reset_clocked() has returned Ok on a design whose reset and clock are the
\* primary inputs "rst" and "clk", entered with the reset low.
C7_Witness ==
  /\ result.op = "reset_clocked"
  /\ result.err = "Ok"
  /\ design.reset = {3}
  /\ design.clock = {2}
  /\ result.log[1].rst = 0
  /\ result.log[6].clk = 1

\* C8: Design.eval_clocked() on a design with no clock bound fails with
\* MissingSignal("clock") and Design.reset_clocked() on a design with no reset
\* bound fails with MissingSignal("reset"); in both cases no eval pass is run
\* and no signal value, toggle counter or cell state changes.
C8_MissingSignal ==
  [][/\ (result'.op = "eval_clocked" /\ design.clock = {}) =>
          /\ result'.err = "MissingSignal(clock)"
          /\ result'.log = <<>>
          /\ design' = design
     /\ (result'.op = "reset_clocked" /\ design.reset = {}) =>
          /\ result'.err = "MissingSignal(reset)"
          /\ result'.log = <<>>
          /\ design' = design
    ]_vars

\* reset_clocked() has failed for want of a reset on a design whose clock is
\* bound and whose input "d" has been written since the last eval.
C8_Witness ==
  /\ result.op = "reset_clocked"
  /\ result.err = "MissingSignal(reset)"
  /\ design.clock = {2}
  /\ Signal_get_value(design.module.signals[4]) = 1
  /\ Signal_get_value(design.module.signals[6]) = 1

(***************************************************************************)
(* SpecPort: the port accessors of a half adder, y = <<a0 XOR a1, a0 AND   *)
(* a1>>, with a two-bit Input port "a" and a two-bit Output port "y".  A   *)
(* port call records its arguments in result.log.                         *)
(***************************************************************************)
HalfAdder ==
  LET signals == NetlistSignals(<<"a[0]", "a[1]", "y[0]", "y[1]">>)
  IN [HardwareModule_default EXCEPT
        !.name = "half_adder",
        !.ports = ("a" :> Port_new(<<2, 3>>, "Input")) @@ ("y" :> Port_new(<<4, 5>>, "Output")),
        !.signals = signals,
        !.signal_map = SignalMap(signals),
        !.components = << LibCell("XOR", "Xor", <<2, 3>>, 4),
                          LibCell("AND", "And", <<2, 3>>, 5) >>]

\* The BitVecs of at most MaxBits bits and the integer arrays of at most
\* MaxBits elements, each 0 or 3 (both bits of a port), handed to the setters.
BitVecs == UNION {[1..n -> Bits] : n \in 0..MaxBits}

IntVecs == UNION {[1..n -> {0, 3}] : n \in 0..MaxBits}

Getters == {"get_port_bits", "get_port_int", "get_port_int_vec", "get_port_string"}

InitPort ==
  /\ design = Design_from_module(HalfAdder)
  /\ result = [op |-> "new", err |-> "Ok", log |-> <<>>]
  /\ nested = HardwareModule_default
  /\ net = NoNet
  /\ writes = <<>>
  /\ lastclk = 0
  /\ script = 0
  /\ nops = 0

PortLeaves(m) ==
  /\ design' = [design EXCEPT !.module = m]
  /\ WithinToggles(m, MaxGateToggles)
  /\ UNCHANGED <<nested, net, writes, lastclk, script, nops>>

PortEval ==
  PortLeaves(HardwareModule_eval(design.module)) /\ Returns("eval", "Ok", <<>>)

PortSetPortInt ==
  \E name \in DOMAIN design.module.ports, val \in 0..3 :
    \E r \in {HardwareModule_set_port_int(design.module, name, val, U8)} :
      PortLeaves(r.module) /\ Returns("set_port_int", r.err, <<name, val>>)

PortSetPortBits ==
  \E name \in DOMAIN design.module.ports, vals \in BitVecs :
    \E r \in {HardwareModule_set_port_bits(design.module, name, vals)} :
      PortLeaves(r.module) /\ Returns("set_port_bits", r.err, <<name, vals>>)

PortSetPortIntVec ==
  \E name \in DOMAIN design.module.ports, vals \in IntVecs :
    \E r \in {HardwareModule_set_port_int_vec(design.module, name, vals, U8)} :
      PortLeaves(r.module) /\ Returns("set_port_int_vec", r.err, <<name, vals>>)

PortGetPort ==
  \E name \in DOMAIN design.module.ports, op \in Getters :
    \E r \in {CASE op = "get_port_bits" -> HardwareModule_get_port_bits(design.module, name)
                [] op = "get_port_int" -> HardwareModule_get_port_int(design.module, name, U8)
                [] op = "get_port_int_vec" ->
                     HardwareModule_get_port_int_vec(design.module, name, U8)
                [] OTHER -> HardwareModule_get_port_string(design.module, name)} :
      PortLeaves(design.module) /\ Returns(op, r.err, <<name>>)

\* A constant, the first net, the last signal, and the two indices after it.
SignalIndices(m) == {0, 2, NumSignals(m) - 1, NumSignals(m), NumSignals(m) + 1}

PortSetSignal ==
  \E idx \in SignalIndices(design.module), val \in Bits :
    \E r \in {HardwareModule_set_signal(design.module, idx, val)} :
      PortLeaves(r.module) /\ Returns("set_signal", r.err, <<idx, val>>)

NextPort ==
  \/ PortSetSignal
  \/ PortEval
  \/ PortSetPortInt
  \/ PortSetPortBits
  \/ PortSetPortIntVec
  \/ PortGetPort

SpecPort == InitPort /\ [][NextPort]_vars

\* C9: set_port_bits on a port whose direction is Output fails with the port
\* Direction error for every BitVector argument and changes no signal;
\* get_port_bits, get_port_int, get_port_int_vec and get_port_string never
\* fail with a Direction error, on Input and on Output ports.
C9_OutputBits ==
  [][/\ (result'.op = "set_port_bits" /\ result'.log[1] \in OutputPorts(design.module)) =>
          /\ result'.err = "Direction"
          /\ design' = design
     /\ result'.op \in Getters => result'.err # "Direction"
    ]_vars

\* set_port_bits of two bits has been refused on the Output port "y" while
\* "y" reads 1 from the cells and the Input port "a" holds other bits.
C9_Witness ==
  /\ result.op = "set_port_bits"
  /\ result.log = <<"y", <<0, 1>> >>
  /\ result.err = "Direction"
  /\ Port_get_bits(design.module.ports["y"], design.module.signals) = <<1, 0>>
  /\ Port_get_bits(design.module.ports["a"], design.module.signals) = <<1, 1>>

\* C10: every write to an Output port is rejected with Direction: set_port_int
\* and set_port_int_vec on an Output port return the Direction error for every
\* argument, including an integer array whose length differs from shape[0],
\* and change no signal.
C10_OutputInts ==
  [][(result'.op \in {"set_port_int", "set_port_int_vec"}
        /\ result'.log[1] \in OutputPorts(design.module)) =>
       /\ result'.err = "Direction"
       /\ design' = design
    ]_vars

\* The Signal update rule, stated on the counters: a Net takes the bit and
\* counts a rise when it goes 0 to 1 and a fall when it goes 1 to 0.
Updated(s, bit) ==
  IF s.kind = "Constant" THEN s
  ELSE [s EXCEPT
          !.value = bit,
          !.toggle_count_rising = @ + (IF s.value = 0 /\ bit = 1 THEN 1 ELSE 0),
          !.toggle_count_falling = @ + (IF s.value = 1 /\ bit = 0 THEN 1 ELSE 0)]

\* The BitVec a recorded port write carries: the bits given to set_port_bits,
\* or the U8_BITS two's-complement bits of the integer given to set_port_int.
Written(res) ==
  IF res.op = "set_port_bits" THEN res.log[2]
  ELSE [i \in 1..U8_BITS |-> (res.log[2] \div Pow2(i - 1)) % 2]

\* C11: set_port_bits(name, bv) on an Input port of width w writes bv bit i to
\* the port's i-th signal for every i < min(len(bv), w), through the Signal
\* update rule; port bits at positions >= len(bv), every signal outside the
\* port's index list, every cell state and the port shape are unchanged.  The
\* same holds for set_port_int::<T>, with len(bv) the bit-width of T.
C11_InputWriteFrame ==
  [][(result'.op \in {"set_port_bits", "set_port_int"}
        /\ result'.log[1] \in InputPorts(design.module)) =>
       LET list == design.module.ports[result'.log[1]].signal_idx_list
           bv == Written(result')
           hit(i) == {k \in 1..Min(Len(bv), Len(list)) : list[k] = i}
       IN /\ result'.err = "Ok"
          /\ \A i \in DOMAIN design.module.signals :
               design'.module.signals[i] =
                 IF hit(i) = {} THEN design.module.signals[i]
                 ELSE Updated(design.module.signals[i], bv[CHOOSE k \in hit(i) : TRUE])
          /\ design'.module.components = design.module.components
          /\ design'.module.ports = design.module.ports
    ]_vars

\* set_port_bits of the single bit 0 on the two-bit Input port "a" has made
\* a[0] fall and has left a[1], beyond the BitVec, at 1.
C11_Witness ==
  /\ result.op = "set_port_bits"
  /\ result.log = <<"a", <<0>> >>
  /\ result.err = "Ok"
  /\ Port_get_bits(design.module.ports["a"], design.module.signals) = <<0, 1>>
  /\ Signal_get_toggle_count_falling(design.module.signals[2]) = 1

(***************************************************************************)
(* SpecShape: port shapes and integer arrays on a module of four buffers,  *)
(* y[i] = BUF(a[i]), with a four-bit Input port "a" and a four-bit Output  *)
(* port "y".  The run is bounded by the module's total toggle count.       *)
(***************************************************************************)
Buffer4 ==
  LET signals == NetlistSignals(<<"a[0]", "a[1]", "a[2]", "a[3]",
                                  "y[0]", "y[1]", "y[2]", "y[3]">>)
  IN [HardwareModule_default EXCEPT
        !.name = "buffer4",
        !.ports = ("a" :> Port_new(<<2, 3, 4, 5>>, "Input"))
                    @@ ("y" :> Port_new(<<6, 7, 8, 9>>, "Output")),
        !.signals = signals,
        !.signal_map = SignalMap(signals),
        !.components = [i \in 1..4 |-> LibCell("BUF", "Buf", <<i + 1>>, i + 5)]]

\* The shapes asked for, and the integer arrays written: at most MaxDim
\* elements, each one of two values of the type.
Shapes == (0..MaxDim) \X (0..MaxDim)

ArraysOf(T) ==
  UNION {[1..n -> IF T.signed THEN {-1, 2} ELSE {1, 6}] : n \in 0..MaxDim}

InitShape ==
  /\ design = Design_from_module(Buffer4)
  /\ result = [op |-> "new", err |-> "Ok", log |-> <<>>]
  /\ nested = HardwareModule_default
  /\ net = NoNet
  /\ writes = <<>>
  /\ lastclk = 0
  /\ script = 0
  /\ nops = 0

ShapeLeaves(m) ==
  /\ design' = [design EXCEPT !.module = m]
  /\ HardwareModule_get_total_toggle_count(m) <= MaxShapeToggles
  /\ UNCHANGED <<nested, net, writes, lastclk, script, nops>>

ShapeSetPortShape ==
  \E name \in DOMAIN design.module.ports, shape \in Shapes :
    \E r \in {HardwareModule_set_port_shape(design.module, name, shape)} :
      ShapeLeaves(r.module) /\ Returns("set_port_shape", r.err, <<>>)

ShapeSetPortIntVec ==
  \E name \in DOMAIN design.module.ports, T \in {U8, I8} :
    \E vals \in ArraysOf(T) :
      \E r \in {HardwareModule_set_port_int_vec(design.module, name, vals, T)} :
        ShapeLeaves(r.module) /\ Returns("set_port_int_vec", r.err, <<>>)

ShapeGetPortIntVec ==
  \E name \in DOMAIN design.module.ports, T \in {U8, I8} :
    \E r \in {HardwareModule_get_port_int_vec(design.module, name, T)} :
      ShapeLeaves(design.module) /\ Returns("get_port_int_vec", r.err, <<r.val>>)

NextShape ==
  \/ ShapeSetPortShape
  \/ ShapeSetPortIntVec
  \/ ShapeGetPortIntVec

SpecShape == InitShape /\ [][NextShape]_vars

\* C12: set_port_int_vec(name, vals) on an Input port with shape [n, s]
\* succeeds only when len(vals) = n; for any other length it returns a Shape
\* error and changes no signal.
C12_IntVecLength ==
  \A name \in InputPorts(design.module), T \in {U8, I8} :
    \A vals \in ArraysOf(T) :
      LET r == HardwareModule_set_port_int_vec(design.module, name, vals, T)
      IN IF Len(vals) = design.module.ports[name].shape[1]
         THEN r.err = "Ok"
         ELSE r.err = "Shape" /\ r.module = design.module

\* set_port_int_vec has been refused for its length on a design whose port
\* "a" has shape [2, 2] and holds bits written earlier.
C12_Witness ==
  /\ result.op = "set_port_int_vec"
  /\ result.err = "Shape"
  /\ design.module.ports["a"].shape = <<2, 2>>
  /\ Port_get_bits(design.module.ports["a"], design.module.signals) = <<1, 0, 0, 1>>

\* C13: set_port_shape(name, [r, c]) succeeds and stores [r, c] exactly when
\* r * c equals the port's bit-width; otherwise it returns a Shape error and
\* leaves the shape unchanged.  Hence shape[0] * shape[1] = bit-width holds for
\* every port after any sequence of set_port_shape calls.
C13_ShapeProduct ==
  /\ \A name \in DOMAIN design.module.ports :
       design.module.ports[name].shape[1] * design.module.ports[name].shape[2]
         = Len(design.module.ports[name].signal_idx_list)
  /\ \A name \in DOMAIN design.module.ports, shape \in Shapes :
       LET r == HardwareModule_set_port_shape(design.module, name, shape)
       IN IF shape[1] * shape[2] = Len(design.module.ports[name].signal_idx_list)
          THEN /\ r.err = "Ok"
               /\ r.module = [design.module EXCEPT !.ports[name].shape = shape]
          ELSE /\ r.err = "Shape"
               /\ r.module = design.module

\* set_port_shape has been refused on a design whose ports "a" and "y" were
\* reshaped earlier to [4, 1] and [2, 2].
C13_Witness ==
  /\ result.op = "set_port_shape"
  /\ result.err = "Shape"
  /\ design.module.ports["a"].shape = <<4, 1>>
  /\ design.module.ports["y"].shape = <<2, 2>>

\* The integer an s-bit chunk denotes in type T: the sum of its bits, less
\* 2^s when T is signed and the top bit is 1.
ChunkValue(bits, T) ==
  LET RECURSIVE Sum(_)
      Sum(i) == IF i > Len(bits) THEN 0 ELSE bits[i] * Pow2(i - 1) + Sum(i + 1)
  IN IF T.signed /\ bits[Len(bits)] = 1 THEN Sum(1) - Pow2(Len(bits)) ELSE Sum(1)

\* v fits in s bits of type T.
Representable(v, s, T) ==
  IF T.signed THEN v >= 0 - Pow2(s - 1) /\ v < Pow2(s - 1) ELSE v >= 0 /\ v < Pow2(s)

\* C17: for an Input port of width W with shape [n, s], after a successful
\* set_port_int_vec(vals) port bit k*s + j equals bit j of vals[k] for every
\* k < n and j < s; get_port_int_vec returns exactly n integers, element k
\* built from port bits k*s .. (k+1)*s - 1 with the signed rule applied per
\* element, so it returns vals whenever every vals[k] is representable in s
\* bits of the element type.
C17_IntVecLayout ==
  \A name \in InputPorts(design.module), T \in {U8, I8} :
    \A vals \in {a \in ArraysOf(T) : Len(a) = design.module.ports[name].shape[1]} :
      LET n == design.module.ports[name].shape[1]
          s == design.module.ports[name].shape[2]
          r == HardwareModule_set_port_int_vec(design.module, name, vals, T)
          bits == HardwareModule_get_port_bits(r.module, name).val
          got == HardwareModule_get_port_int_vec(r.module, name, T).val
      IN /\ r.err = "Ok"
         /\ \A k \in 0..(n - 1), j \in 0..(s - 1) :
              bits[k * s + j + 1] = (vals[k + 1] \div Pow2(j)) % 2
         /\ Len(got) = n
         /\ \A k \in 0..(n - 1) :
              got[k + 1] = ChunkValue(SubSeq(bits, k * s + 1, (k + 1) * s), T)
         /\ (\A k \in 1..n : Representable(vals[k], s, T)) => got = vals

\* get_port_int_vec::<i8> on port "a", shaped [2, 2] and holding the bits of
\* the array <<-1, 2>>, has returned <<-1, -2>>.
C17_Witness ==
  /\ result.op = "get_port_int_vec"
  /\ result.log = << <<-1, -2>> >>
  /\ design.module.ports["a"].shape = <<2, 2>>
  /\ Port_get_bits(design.module.ports["a"], design.module.signals) = <<1, 1, 0, 1>>

(***************************************************************************)
(* SpecBitVec: one BitVec, `writes`, under the integer conversions of      *)
(* bit.rs for u8 and i8.  result.log holds the type, then the arguments    *)
(* and the value returned.  to_int of a BitVec longer than the type is not *)
(* taken here.                                                             *)
(***************************************************************************)
InitBitVec ==
  /\ writes \in UNION {[1..n -> Bits] : n \in 0..MaxVecBits}
  /\ result = [op |-> "new", err |-> "Ok", log |-> <<>>]
  /\ design = Design_from_module(HardwareModule_default)
  /\ nested = HardwareModule_default
  /\ net = NoNet
  /\ lastclk = 0
  /\ script = 0
  /\ nops = 0

\* let bv = BitVec::from_int_sized(v, W), in place of BitVec::new().
BitVecFromIntSized ==
  /\ writes = <<>>
  /\ \E T \in {U8, I8} :
       \E v \in TypeValues(T) :
         /\ writes' = BitVec_from_int_sized(v, T.bits)
         /\ Returns("from_int_sized", "Ok", <<T, v>>)
  /\ UNCHANGED <<design, nested, net, lastclk, script, nops>>

BitVecToInt ==
  /\ \E T \in {U8, I8} :
       /\ Len(writes) \in 1..T.bits
       /\ Returns("to_int", "Ok", <<T, BitVec_to_int(writes, T)>>)
  /\ UNCHANGED <<design, nested, net, writes, lastclk, script, nops>>

BitVecToIntsSized ==
  /\ writes # <<>>
  /\ \E T \in {U8, I8} :
       \E elem_size \in 1..T.bits :
         Returns("to_ints_sized", "Ok",
                 <<T, elem_size, BitVec_to_ints_sized(writes, elem_size, T)>>)
  /\ UNCHANGED <<design, nested, net, writes, lastclk, script, nops>>

\* bv = BitVec::from_ints_sized(&ints, elem_size) on the integers just unpacked.
BitVecFromIntsSized ==
  /\ result.op = "to_ints_sized"
  /\ \E bv \in {BitVec_from_ints_sized(result.log[3], result.log[2])} :
       /\ Len(bv) <= MaxVecBits
       /\ writes' = bv
  /\ Returns("from_ints_sized", "Ok", <<result.log[1], result.log[2]>>)
  /\ UNCHANGED <<design, nested, net, lastclk, script, nops>>

\* let bv = BitVec::from(a) for a boolean array a, in place of BitVec::new().
BitVecFromBools ==
  /\ writes = <<>>
  /\ \E vals \in UNION {[1..n -> BOOLEAN] : n \in 1..MaxVecBits} :
       /\ writes' = BitVec_from_bools(vals)
       /\ Returns("from_bools", "Ok", <<vals>>)
  /\ UNCHANGED <<design, nested, net, lastclk, script, nops>>

\* let b: Vec<bool> = (&bv).into() on the BitVec just built from booleans.
BitVecIntoBools ==
  /\ result.op = "from_bools"
  /\ Returns("into_bools", "Ok", <<BitVec_into_bools(writes)>>)
  /\ UNCHANGED <<design, nested, net, writes, lastclk, script, nops>>

\* bv.to_bool_ndarray_buffer(buffer) on the BitVec just built from booleans;
\* the buffer handed in holds false everywhere, and is as long as the BitVec
\* or one element longer or shorter.
BitVecToBoolNdarrayBuffer ==
  /\ result.op = "from_bools"
  /\ \E n \in {Len(writes) - 1, Len(writes), Len(writes) + 1} \ {-1} :
       \E r \in {BitVec_to_bool_ndarray_buffer(writes, [i \in 1..n |-> FALSE])} :
         Returns("to_bool_ndarray_buffer", r.err, <<r.buffer>>)
  /\ UNCHANGED <<design, nested, net, writes, lastclk, script, nops>>

NextBitVec ==
  \/ BitVecFromBools
  \/ BitVecIntoBools
  \/ BitVecToBoolNdarrayBuffer
  \/ BitVecFromIntSized
  \/ BitVecToInt
  \/ BitVecToIntsSized
  \/ BitVecFromIntsSized

SpecBitVec == InitBitVec /\ [][NextBitVec]_vars

\* C14: for every integer type T of width W (unsigned and signed) and every
\* value v of T, including all negative values of a signed T,
\* BitVec::from_int_sized(v, W) has bit i equal to bit i of the W-bit two's
\* complement of v, (v >> i) & 1, for i in 0..W, and to_int::<T> of that
\* BitVec returns v.
C14_IntRoundTrip ==
  result.op = "from_int_sized" =>
    LET T == result.log[1]
        v == result.log[2]
    IN /\ Len(writes) = T.bits
       /\ \A i \in 0..(T.bits - 1) : writes[i + 1] = ((v % Pow2(T.bits)) \div Pow2(i)) % 2
       /\ BitVec_to_int(writes, T) = v

\* from_int_sized::<i8>(-3, 8) has produced the bits of 0xFD.
C14_Witness ==
  /\ result.op = "from_int_sized"
  /\ result.log = <<I8, -3>>
  /\ writes = <<1, 0, 1, 1, 1, 1, 1, 1>>

\* C15: for a BitVector of length L <= W converted to an integer type T of
\* width W, the result is (sum of bit[i] << i) - 2^L if T is signed and bit
\* L-1 is 1, and sum of bit[i] << i in every other case.  "1101", the bits
\* <<1, 0, 1, 1>> from the least significant, is -3 signed and 13 unsigned.
C15_SignExtension ==
  /\ result.op = "to_int" => result.log[2] = ChunkValue(writes, result.log[1])
  /\ BitVec_to_int(<<1, 0, 1, 1>>, I8) = -3
  /\ BitVec_to_int(<<1, 0, 1, 1>>, U8) = 13

\* to_int::<i8> of "1101" has returned -3.
C15_Witness ==
  /\ result.op = "to_int"
  /\ writes = <<1, 0, 1, 1>>
  /\ result.log = <<I8, -3>>

\* C16: for every BitVector bv and every chunk width s (s <= width of T) that
\* divides len(bv), for signed and unsigned T, to_ints_sized::<T>(s) returns
\* len(bv)/s elements, element k converted from bits k*s .. (k+1)*s-1, and
\* from_ints_sized of them with s equals bv.
C16_ChunkRoundTrip ==
  \A T \in {U8, I8} :
    \A s \in {e \in 1..T.bits : writes # <<>> /\ Len(writes) % e = 0} :
      LET ints == BitVec_to_ints_sized(writes, s, T)
      IN /\ Len(ints) = Len(writes) \div s
         /\ \A k \in 0..(Len(ints) - 1) :
              ints[k + 1] = ChunkValue(SubSeq(writes, k * s + 1, (k + 1) * s), T)
         /\ BitVec_from_ints_sized(ints, s) = writes

\* from_ints_sized has repacked the three i8 elements <<-1, 1, -2>> that
\* to_ints_sized(2) unpacked from a six-bit BitVec.
C16_Witness ==
  /\ result.op = "from_ints_sized"
  /\ result.log = <<I8, 2>>
  /\ writes = <<1, 1, 1, 0, 0, 1>>

\* C18: set_signal(id, bit) returns MissingSignalIndex(id) and changes nothing
\* for every id >= len(signals), id == len(signals) included; for
\* id < len(signals) it writes the bit through the Signal update rule (a
\* constant keeps its value, a net that changes value counts one toggle) and
\* returns Ok.
C18_SetSignalRange ==
  [][result'.op = "set_signal" =>
       LET idx == result'.log[1]
           val == result'.log[2]
           old == design.module.signals
       IN IF idx >= NumSignals(design.module)
          THEN result'.err = "MissingSignalIndex" /\ design' = design
          ELSE /\ result'.err = "Ok"
               /\ design'.module = [design.module EXCEPT !.signals = design'.module.signals]
               /\ \A i \in DOMAIN old :
                    design'.module.signals[i] =
                      IF i = idx /\ old[i].kind = "Net" /\ old[i].value # val
                      THEN [old[i] EXCEPT !.value = val,
                                          !.toggle_count_rising = @ + val,
                                          !.toggle_count_falling = @ + (1 - val)]
                      ELSE old[i]]_vars

(***************************************************************************)
(* synth/yosys.rs and synth/netlist.rs: the import of a Yosys netlist.     *)
(* A parsed yosys_netlist_json value lists its modules, ports, cells,      *)
(* connections and net names as sequences of <<name, value>> in the order  *)
(* the synthesizer wrote them; a bit is [n |-> index] or [s |-> "0", "1",  *)
(* "x" or "z"].  A BTreeMap is the sequence of its <<key, value>> entries  *)
(* in key order.  A conversion returns [err, val]; err is "Panic" where    *)
(* the code hits todo!(), unwrap() on None or an index out of bounds.      *)
(***************************************************************************)
\* The names in use, in the byte order of Rust's Ord for String.
NameOrder ==
  <<"A", "B", "I0", "I1", "I2", "I3", "I4", "I5", "I6", "I7", "Y",
    "a", "b", "inv", "io", "n", "pair", "top", "u1", "u2", "u3", "y">>

KeyRank(key) == CHOOSE i \in 1..Len(NameOrder) : NameOrder[i] = key

\* BTreeMap::insert: the entry goes to its place in key order; an equal key
\* has its value replaced.
RECURSIVE BTreeMap_insert(_, _, _)
BTreeMap_insert(map, key, value) ==
  IF map = <<>> THEN << <<key, value>> >>
  ELSE IF Head(map)[1] = key THEN << <<key, value>> >> \o Tail(map)
  ELSE IF KeyRank(key) < KeyRank(Head(map)[1]) THEN << <<key, value>> >> \o map
  ELSE <<Head(map)>> \o BTreeMap_insert(Tail(map), key, value)

\* An insert that appends, keeping the order of arrival.
BTreeMap_insert_arrival(map, key, value) == Append(map, <<key, value>>)

RECURSIVE BTreeMap_collect(_, _)
BTreeMap_collect(map, entries) ==
  IF entries = <<>> THEN map
  ELSE BTreeMap_collect(BTreeMap_insert(map, Head(entries)[1], Head(entries)[2]),
                        Tail(entries))

BTreeMap_has(map, key) == \E i \in 1..Len(map) : map[i][1] = key

BTreeMap_get(map, key) == map[CHOOSE i \in 1..Len(map) : map[i][1] = key][2]

PortDirection_from(value) ==
  CASE value = "inout" -> [err |-> "Panic", val |-> "Inout not supported"]
    [] value = "input" -> [err |-> "Ok", val |-> "Input"]
    [] value = "output" -> [err |-> "Ok", val |-> "Output"]

SynthBit_from(value) ==
  IF "n" \in DOMAIN value
  THEN [err |-> "Ok", val |-> [kind |-> "NetIndex", val |-> value.n]]
  ELSE CASE value.s = "0" -> [err |-> "Ok", val |-> [kind |-> "Constant", val |-> 0]]
         [] value.s = "1" -> [err |-> "Ok", val |-> [kind |-> "Constant", val |-> 1]]
         [] value.s = "x" -> [err |-> "Panic", val |-> "X not supported"]
         [] value.s = "z" -> [err |-> "Panic", val |-> "Z not supported"]

\* vals.iter().map(|x| SynthBit::from(*x)).collect()
SynthBits_from(vals) ==
  IF \E i \in 1..Len(vals) : SynthBit_from(vals[i]).err # "Ok"
  THEN [err |-> "Panic", val |-> <<>>]
  ELSE [err |-> "Ok", val |-> [i \in 1..Len(vals) |-> SynthBit_from(vals[i]).val]]

SynthPort_from(value) ==
  IF PortDirection_from(value.direction).err # "Ok" \/ SynthBits_from(value.bits).err # "Ok"
  THEN [err |-> "Panic", val |-> <<>>]
  ELSE [err |-> "Ok",
        val |-> [direction |-> PortDirection_from(value.direction).val,
                 bits |-> SynthBits_from(value.bits).val,
                 signed |-> value.signed > 0]]

SynthCell_from(value) ==
  IF \E i \in 1..Len(value.connections) :
       SynthBits_from(value.connections[i][2]).err # "Ok"
  THEN [err |-> "Panic", val |-> <<>>]
  ELSE [err |-> "Ok",
        val |-> [cell_type |-> value.cell_type,
                 connections |->
                   BTreeMap_collect(<<>>,
                     [i \in 1..Len(value.connections) |->
                        <<value.connections[i][1],
                          SynthBits_from(value.connections[i][2]).val>>])]]

\* From<yosys_netlist_json::Module> for SynthModule: three collects into
\* BTreeMaps.
SynthModule_from(value) ==
  IF \/ \E i \in 1..Len(value.ports) : SynthPort_from(value.ports[i][2]).err # "Ok"
     \/ \E i \in 1..Len(value.cells) : SynthCell_from(value.cells[i][2]).err # "Ok"
     \/ \E i \in 1..Len(value.netnames) : SynthBits_from(value.netnames[i][2]).err # "Ok"
  THEN [err |-> "Panic", val |-> <<>>]
  ELSE [err |-> "Ok",
        val |-> [ports |-> BTreeMap_collect(<<>>,
                             [i \in 1..Len(value.ports) |->
                                <<value.ports[i][1], SynthPort_from(value.ports[i][2]).val>>]),
                 cells |-> BTreeMap_collect(<<>>,
                             [i \in 1..Len(value.cells) |->
                                <<value.cells[i][1], SynthCell_from(value.cells[i][2]).val>>]),
                 nets |-> BTreeMap_collect(<<>>,
                            [i \in 1..Len(value.netnames) |->
                               <<value.netnames[i][1],
                                 SynthBits_from(value.netnames[i][2]).val>>])]]

\* impl From<yosys_netlist_json::Netlist> for Netlist
Netlist_from(value) ==
  IF \E i \in 1..Len(value) : SynthModule_from(value[i][2]).err # "Ok"
  THEN [err |-> "Panic", val |-> <<>>]
  ELSE [err |-> "Ok",
        val |-> BTreeMap_collect(<<>>,
                  [i \in 1..Len(value) |->
                     <<value[i][1], SynthModule_from(value[i][2]).val>>])]

\* Netlist::from_yosys_raw: raw_json.modules is what
\* yosys_netlist_json::Netlist::from_slice parses out of a well-formed
\* document.
Netlist_from_yosys_raw(raw_json) ==
  IF ~raw_json.well_formed THEN [err |-> "Netlist", val |-> <<>>]
  ELSE Netlist_from(raw_json.modules)

\* The signal index of a connection bit: 0 and 1 for the constants.
SynthBit_index(bit) == bit.val

\* SynthModule::max_net_idx: .max().unwrap() of no nets, or of a net of no
\* bits, panics.
SynthModule_max_net_idx(module) ==
  IF module.nets = <<>> \/ \E i \in 1..Len(module.nets) : module.nets[i][2] = <<>>
  THEN [err |-> "Panic", val |-> 0]
  ELSE [err |-> "Ok",
        val |-> LET idxs == {0} \cup UNION
                      {{module.nets[i][2][k].val :
                          k \in {j \in 1..Len(module.nets[i][2]) :
                                   module.nets[i][2][j].kind = "NetIndex"}} :
                         i \in 1..Len(module.nets)}
                IN CHOOSE x \in idxs : \A y \in idxs : y <= x]

\* impl From<&SynthPort> for Port
Port_from(value) ==
  [Port_new([i \in 1..Len(value.bits) |-> SynthBit_index(value.bits[i])], value.direction)
     EXCEPT !.signed = value.signed]

\* HashMap::insert
HashMap_insert(map, key, value) ==
  [k \in DOMAIN map \cup {key} |-> IF k = key THEN value ELSE map[k]]

\* generate_module, the loop over the nets: net number n, bit i of it.
RECURSIVE NetSignals(_, _, _, _)
NetSignals(acc, nets, n, i) ==
  IF n > Len(nets) THEN acc
  ELSE IF i >= Len(nets[n][2]) THEN NetSignals(acc, nets, n + 1, 0)
  ELSE IF nets[n][2][i + 1].kind = "Constant" THEN NetSignals(acc, nets, n, i + 1)
  ELSE NetSignals(
         [signals |->
            [acc.signals EXCEPT ![nets[n][2][i + 1].val] =
               NamedNet(nets[n][2][i + 1].val,
                        IF Len(nets[n][2]) > 1 THEN BitName(nets[n][1], i) ELSE nets[n][1])],
          signal_map |->
            HashMap_insert(acc.signal_map,
                           IF Len(nets[n][2]) > 1 THEN BitName(nets[n][1], i) ELSE nets[n][1],
                           nets[n][2][i + 1].val)],
         nets, n, i + 1)

\* impl From<&CellInfo> for Cell
Cell_from(value) == Cell_new(value.name, value.function, value.num_inputs, <<>>, 0)

\* A connection loop that takes the last connection for the output.
RECURSIVE ConnectCell_last(_, _, _)
ConnectCell_last(cell, connections, i) ==
  IF i >= Len(connections)
  THEN IF Len(connections) = 0 \/ Len(connections) > CONNECTION_SIZE
       THEN [err |-> "Panic", val |-> cell]
       ELSE [err |-> "Ok",
             val |-> [cell EXCEPT !.output_connection =
                        cell.input_connections[Len(connections) - 1]]]
  ELSE IF connections[i + 1][2] = <<>> \/ i >= CONNECTION_SIZE
       THEN [err |-> "Panic", val |-> cell]
  ELSE ConnectCell_last([cell EXCEPT !.input_connections[i] =
                           SynthBit_index(connections[i + 1][2][1])],
                        connections, i + 1)

\* generate_module, a library cell: connection i of the instance, in port
\* name order, goes to input_connections[i]; then the output is read from
\* input_connections[num_inputs].
RECURSIVE ConnectCell(_, _, _)
ConnectCell(cell, connections, i) ==
  IF i >= Len(connections)
  THEN IF cell.num_inputs >= CONNECTION_SIZE
       THEN [err |-> "Panic", val |-> cell]
       ELSE [err |-> "Ok",
             val |-> [cell EXCEPT !.output_connection =
                        cell.input_connections[cell.num_inputs]]]
  ELSE IF connections[i + 1][2] = <<>> \/ i >= CONNECTION_SIZE
       THEN [err |-> "Panic", val |-> cell]
  ELSE ConnectCell([cell EXCEPT !.input_connections[i] =
                      SynthBit_index(connections[i + 1][2][1])],
                   connections, i + 1)

\* A submodule hookup that files every connection as an input.
RECURSIVE ConnectModule_inputs(_, _, _, _)
ConnectModule_inputs(submodule, connections, c, i) ==
  IF c > Len(connections) THEN [err |-> "Ok", val |-> submodule]
  ELSE IF connections[c][1] \notin DOMAIN submodule.ports
       THEN [err |-> "Panic", val |-> submodule]
  ELSE IF i >= Len(connections[c][2]) THEN ConnectModule_inputs(submodule, connections, c + 1, 0)
  ELSE IF i >= Len(submodule.ports[connections[c][1]].signal_idx_list)
       THEN [err |-> "Panic", val |-> submodule]
  ELSE ConnectModule_inputs(
         [submodule EXCEPT !.input_connections =
            Append(@, <<SynthBit_index(connections[c][2][i + 1]),
                        submodule.ports[connections[c][1]].signal_idx_list[i + 1]>>)],
         connections, c, i + 1)

\* generate_module, a submodule: connection number c, bit i of it.
RECURSIVE ConnectModule(_, _, _, _)
ConnectModule(submodule, connections, c, i) ==
  IF c > Len(connections) THEN [err |-> "Ok", val |-> submodule]
  ELSE IF connections[c][1] \notin DOMAIN submodule.ports
       THEN [err |-> "Panic", val |-> submodule]
  ELSE IF i >= Len(connections[c][2]) THEN ConnectModule(submodule, connections, c + 1, 0)
  ELSE IF i >= Len(submodule.ports[connections[c][1]].signal_idx_list)
       THEN [err |-> "Panic", val |-> submodule]
  ELSE ConnectModule(
         IF submodule.ports[connections[c][1]].direction = "Input"
         THEN [submodule EXCEPT !.input_connections =
                 Append(@, <<SynthBit_index(connections[c][2][i + 1]),
                             submodule.ports[connections[c][1]].signal_idx_list[i + 1]>>)]
         ELSE [submodule EXCEPT !.output_connections =
                 Append(@, <<SynthBit_index(connections[c][2][i + 1]),
                             submodule.ports[connections[c][1]].signal_idx_list[i + 1]>>)],
         connections, c, i + 1)

\* Netlist::generate_module.  modules is the netlist's BTreeMap, cell_library
\* the library's map of cells.
RECURSIVE Netlist_generate_module(_, _, _)
Netlist_generate_module(modules, name, cell_library) ==
  IF ~BTreeMap_has(modules, name) THEN [err |-> "MissingModule", val |-> name]
  ELSE IF SynthModule_max_net_idx(BTreeMap_get(modules, name)).err # "Ok"
          \/ SynthModule_max_net_idx(BTreeMap_get(modules, name)).val < 1
       THEN [err |-> "Panic", val |-> name]
  ELSE
    LET top_module == BTreeMap_get(modules, name)
        filled ==
          NetSignals([signals |-> [i \in 0..SynthModule_max_net_idx(top_module).val |->
                                     Signal_new_constant(IF i = 1 THEN 1 ELSE 0)],
                      signal_map |-> EmptyMap],
                     top_module.nets, 1, 0)
        RECURSIVE Components(_, _)
        Components(acc, k) ==
          IF k > Len(top_module.cells) \/ acc.err # "Ok" THEN acc
          ELSE IF top_module.cells[k][2].cell_type \in DOMAIN cell_library
          THEN \* Some(cell_info)
            Components(
              LET r == ConnectCell(Cell_from(cell_library[top_module.cells[k][2].cell_type]),
                                   top_module.cells[k][2].connections, 0)
              IN [err |-> r.err,
                  components |-> Append(acc.components, CellComponent(r.val)),
                  component_map |-> HashMap_insert(acc.component_map, top_module.cells[k][1],
                                                   Len(acc.components))],
              k + 1)
          ELSE \* None: the cell is an instance of another module of the netlist
            Components(
              LET sub == Netlist_generate_module(modules, top_module.cells[k][2].cell_type,
                                                 cell_library)
              IN IF sub.err # "Ok"
                 THEN [err |-> sub.err, components |-> acc.components,
                       component_map |-> acc.component_map]
                 ELSE LET r == ConnectModule(sub.val, top_module.cells[k][2].connections, 1, 0)
                      IN [err |-> r.err,
                          components |-> Append(acc.components, ModuleComponent(r.val)),
                          component_map |-> HashMap_insert(acc.component_map,
                                                           top_module.cells[k][1],
                                                           Len(acc.components))],
              k + 1)
        built == Components([err |-> "Ok", components |-> <<>>, component_map |-> EmptyMap], 1)
    IN IF built.err # "Ok" THEN [err |-> built.err, val |-> name]
       ELSE [err |-> "Ok",
             val |-> [HardwareModule_default EXCEPT
                        !.name = name,
                        !.ports = [n \in {top_module.ports[i][1] : i \in 1..Len(top_module.ports)}
                                     |-> Port_from(BTreeMap_get(top_module.ports, n))],
                        !.signals = filled.signals,
                        !.signal_map = filled.signal_map,
                        !.components = built.components,
                        !.component_map = built.component_map]]

(***************************************************************************)
(* SpecTree: a three-level module.  "top" holds two instances of "leaf"    *)
(* and an inverter; each "leaf" holds a buffer and one "core"; a "core" is *)
(* one inverter.  y[0] = NOT a[0] through the first leaf, y[1] = a[1]      *)
(* through the inverter and the second leaf.  A submodule is named after   *)
(* its module type, so the instances of a type share a name.               *)
(***************************************************************************)
CoreModule ==
  LET signals == NetlistSignals(<<"a", "y">>)
  IN [HardwareModule_default EXCEPT
        !.name = "core",
        !.ports = ("a" :> Port_new(<<2>>, "Input")) @@ ("y" :> Port_new(<<3>>, "Output")),
        !.signals = signals,
        !.signal_map = SignalMap(signals),
        !.components = <<LibCell("NOT", "Inverter", <<2>>, 3)>>,
        !.input_connections = << <<4, 2>> >>,
        !.output_connections = << <<3, 3>> >>]

\* The instance of "leaf" reading parent signal `from` and driving `to`.
LeafModule(from, to) ==
  LET signals == NetlistSignals(<<"a", "y", "m">>)
  IN [HardwareModule_default EXCEPT
        !.name = "leaf",
        !.ports = ("a" :> Port_new(<<2>>, "Input")) @@ ("y" :> Port_new(<<3>>, "Output")),
        !.signals = signals,
        !.signal_map = SignalMap(signals),
        !.components = <<LibCell("BUF", "Buf", <<2>>, 4), ModuleComponent(CoreModule)>>,
        !.input_connections = << <<from, 2>> >>,
        !.output_connections = << <<to, 3>> >>]

TreeModule ==
  LET signals == NetlistSignals(<<"a[0]", "a[1]", "y[0]", "y[1]", "n">>)
  IN [HardwareModule_default EXCEPT
        !.name = "top",
        !.ports = ("a" :> Port_new(<<2, 3>>, "Input")) @@ ("y" :> Port_new(<<4, 5>>, "Output")),
        !.signals = signals,
        !.signal_map = SignalMap(signals),
        !.components = << ModuleComponent(LeafModule(2, 4)),
                          LibCell("NOT", "Inverter", <<3>>, 6),
                          ModuleComponent(LeafModule(6, 5)) >>]

TreeModuleNames == {"top", "leaf", "core", "stage"}

\* A user library: other areas, and no BUF cell.
CustomLibrary ==
  ("NOT" :> CellInfo("NOT", "Inverter", 3, 1))
    @@ ("NAND" :> CellInfo("NAND", "Nand", 5, 2))

InitTree ==
  /\ design \in {[Design_from_module(TreeModule) EXCEPT !.cell_library = cells] :
                   cells \in {default_cell_library, CustomLibrary}}
  /\ result = [op |-> "new", err |-> "Ok", log |-> <<>>]
  /\ nested = HardwareModule_default
  /\ net = NoNet
  /\ writes = <<>>
  /\ lastclk = 0
  /\ script = 0
  /\ nops = 0

TreeSetPortInt ==
  \E val \in 0..3 :
    \E r \in {HardwareModule_set_port_int(design.module, "a", val, U8)} :
      PortLeaves(r.module) /\ Returns("set_port_int", r.err, <<"a", val>>)

TreeEval ==
  PortLeaves(HardwareModule_eval(design.module)) /\ Returns("eval", "Ok", <<>>)

TreeReset ==
  PortLeaves(HardwareModule_reset(design.module)) /\ Returns("reset", "Ok", <<>>)

TreeTotalToggleCount ==
  /\ \E name \in TreeModuleNames :
       \E r \in {HardwareModule_search_module_total_toggle_count(design.module, name)} :
         Returns("search_module_total_toggle_count", r.err, <<name, r.val>>)
  /\ UNCHANGED <<design, nested, net, writes, lastclk, script, nops>>

TreeCellBreakdown ==
  /\ \E name \in TreeModuleNames :
       \E r \in {HardwareModule_search_module_cell_breakdown(design.module, name)} :
         Returns("search_module_cell_breakdown", r.err, <<name, r.val>>)
  /\ UNCHANGED <<design, nested, net, writes, lastclk, script, nops>>

TreeModuleArea ==
  /\ \E name \in TreeModuleNames :
       \E r \in {Design_get_module_area(design, name)} :
         Returns("get_module_area", r.err, <<name, r.val>>)
  /\ UNCHANGED <<design, nested, net, writes, lastclk, script, nops>>

TreePaths ==
  {<<>>, <<"leaf">>, <<"leaf", "core">>, <<"core">>, <<"stage">>, <<"leaf", "stage">>}

TreeGetModulePortInt ==
  /\ \E path \in TreePaths, name \in {"y", "q"} :
       \E r \in {HardwareModule_get_module_port_int(design.module, path, name, U8)} :
         Returns("get_module_port_int", r.err, <<path, name, r.val>>)
  /\ UNCHANGED <<design, nested, net, writes, lastclk, script, nops>>

NextTree ==
  \/ TreeGetModulePortInt
  \/ TreeModuleArea
  \/ TreeSetPortInt
  \/ TreeEval
  \/ TreeReset
  \/ TreeTotalToggleCount
  \/ TreeCellBreakdown

SpecTree == InitTree /\ [][NextTree]_vars

\* rising + falling over the Nets of m that are not the child side of one of
\* m's input connections, and the same over every module below m.
RECURSIVE TreeToggles(_)
TreeToggles(m) ==
  LET childSide == {m.input_connections[j][2] : j \in 1..Len(m.input_connections)}
      RECURSIVE Nets(_)
      Nets(S) ==
        IF S = {} THEN 0
        ELSE LET i == CHOOSE x \in S : TRUE
             IN m.signals[i].toggle_count_rising + m.signals[i].toggle_count_falling
                  + Nets(S \ {i})
      RECURSIVE Below(_)
      Below(k) ==
        IF k > Len(m.components) THEN 0
        ELSE (IF m.components[k].type = "Module"
              THEN TreeToggles(m.components[k].module) ELSE 0) + Below(k + 1)
  IN Nets({i \in DOMAIN m.signals : m.signals[i].kind = "Net" /\ i \notin childSide})
       + Below(1)

\* C19: after any sequence of port writes and evals on a hierarchical module,
\* search_module_total_toggle_count(name) is the sum of rising + falling over
\* every Net of the first module named `name` and of all its descendants,
\* leaving out in each module the child side of that module's input
\* connections (Constants count 0); "leaf" finds the first of the two
\* instances; a name no module has fails with MissingModule; after reset()
\* every count is 0.
C19_TotalToggleCount ==
  /\ result.op = "search_module_total_toggle_count" =>
       LET first == design.module.components[1].module
       IN CASE result.log[1] = "top" ->
                 result.err = "Ok" /\ result.log[2] = TreeToggles(design.module)
            [] result.log[1] = "leaf" ->
                 result.err = "Ok" /\ result.log[2] = TreeToggles(first)
            [] result.log[1] = "core" ->
                 /\ result.err = "Ok"
                 /\ result.log[2] = TreeToggles(first.components[2].module)
            [] OTHER -> result.err = "MissingModule"
  /\ result.op = "reset" =>
       \A name \in {"top", "leaf", "core"} :
         HardwareModule_search_module_total_toggle_count(design.module, name)
           = [err |-> "Ok", val |-> 0]

\* The count of "leaf" has been read with the first instance's input copy
\* toggled and the second instance holding a different count.
C19_Witness ==
  /\ result.op = "search_module_total_toggle_count"
  /\ result.log[1] = "leaf"
  /\ result.log[2] > 0
  /\ HardwareModule_get_total_toggle_count_all(design.module.components[1].module)
       > result.log[2]
  /\ TreeToggles(design.module.components[3].module) > 0
  /\ TreeToggles(design.module.components[3].module) # result.log[2]

\* C20: search_module_cell_breakdown(name) returns, for the first module
\* named `name` in depth-first component order, the map from each cell name
\* to the number of Cell components of that name in the module and all its
\* descendants: 3 NOT and 2 BUF under "top" (5 cells), 1 BUF and 1 NOT under
\* "leaf", 1 NOT under "core"; a name no module has fails with
\* MissingModule; the call changes no state.
C20_CellBreakdown ==
  [][result'.op = "search_module_cell_breakdown" =>
       /\ design' = design
       /\ CASE result'.log[1] = "top" ->
                 /\ result'.err = "Ok"
                 /\ result'.log[2] = ("NOT" :> 3) @@ ("BUF" :> 2)
            [] result'.log[1] = "leaf" ->
                 /\ result'.err = "Ok"
                 /\ result'.log[2] = ("BUF" :> 1) @@ ("NOT" :> 1)
            [] result'.log[1] = "core" ->
                 result'.err = "Ok" /\ result'.log[2] = ("NOT" :> 1)
            [] OTHER -> result'.err = "MissingModule"]_vars

\* The breakdown of "top" has been read, after an eval, with both cell names
\* counted across the three levels.
C20_Witness ==
  /\ result.op = "search_module_cell_breakdown"
  /\ result.log[1] = "top"
  /\ DOMAIN result.log[2] = {"NOT", "BUF"}
  /\ result.log[2]["NOT"] + result.log[2]["BUF"] = 5
  /\ HardwareModule_get_total_toggle_count(design.module) > 0

\* C21: Design.get_module_area(name) is the sum, over the cell breakdown of
\* the named submodule, of count(cell) * area(cell) from the design's cell
\* library: with the default library "top" (3 NOT, 2 BUF) has area 14, "leaf"
\* 6 and "core" 2, with a library whose NOT has area 3 "core" has area 3; and
\* with the default library the breakdown {NAND: 3, NOT: 2, DFF: 1} gives 24.
C21_ModuleArea ==
  /\ result.op = "get_module_area" /\ result.err = "Ok" =>
       LET area == [n \in DOMAIN design.cell_library |-> design.cell_library[n].area]
           name == result.log[1]
       IN result.log[2] =
            CASE name = "top" -> 3 * area["NOT"] + 2 * area["BUF"]
              [] name = "leaf" -> area["BUF"] + area["NOT"]
              [] name = "core" -> area["NOT"]
  /\ result.op = "get_module_area" =>
       result.err = IF result.log[1] \notin {"top", "leaf", "core"} THEN "MissingModule"
                    ELSE IF result.log[1] # "core" /\ "BUF" \notin DOMAIN design.cell_library
                         THEN "NotFound" ELSE "Ok"
  /\ CellLibrary_get_cell_breakdown_area(default_cell_library,
                                         ("NAND" :> 3) @@ ("NOT" :> 2) @@ ("DFF" :> 1))
       = [err |-> "Ok", val |-> 24]

\* The area of "top" has been read as 14 from the default library.
C21_Witness ==
  /\ result.op = "get_module_area"
  /\ result.err = "Ok"
  /\ result.log = <<"top", 14>>
  /\ design.cell_library = default_cell_library

\* C22: in the boolean-array form index 0 of the external array is the most
\* significant bit, on ingest and on output: a BitVec built from a boolean
\* array a stores a reversed (a[0] becomes the top bit), and converting that
\* BitVec back to a boolean array of the same length, by the Vec<bool>
\* conversion or by to_bool_ndarray_buffer, returns a.
C22_BoolArrays ==
  [][/\ result'.op = "from_bools" =>
          LET a == result'.log[1]
          IN /\ Len(writes') = Len(a)
             /\ \A i \in 1..Len(a) : writes'[Len(a) + 1 - i] = (IF a[i] THEN 1 ELSE 0)
     /\ result.op = "from_bools" /\ result'.op = "into_bools" =>
          result'.log[1] = result.log[1]
     /\ result.op = "from_bools" /\ result'.op = "to_bool_ndarray_buffer"
          /\ Len(result'.log[1]) = Len(result.log[1]) =>
          result'.err = "Ok" /\ result'.log[1] = result.log[1]]_vars

(***************************************************************************)
(* SpecImport: a netlist is imported (from_yosys_raw, then generate_module *)
(* of "top" with the design's cell library) and the module built is        *)
(* written, evaluated and reset.  `script` is the caller's input: the      *)
(* parsed netlist and the cell library.                                    *)
(***************************************************************************)
N(idx) == [n |-> idx]

S(constant) == [s |-> constant]

RawPort(direction, bits) == [direction |-> direction, bits |-> bits, signed |-> 0]

RawCell(cell_type, connections) == [cell_type |-> cell_type, connections |-> connections]

RawModule(ports, cells, netnames) == [ports |-> ports, cells |-> cells, netnames |-> netnames]

JsonDocument(modules) == [well_formed |-> TRUE, modules |-> modules]

\* y = NOT (NOT a): two inverters, written in topological order under the
\* instance names first and second.
ChainNetlist(first, second) ==
  JsonDocument(
  << <<"top",
       RawModule(<< <<"a", RawPort("input", <<N(2)>>)>>, <<"y", RawPort("output", <<N(4)>>)>> >>,
                 << <<first, RawCell("NOT", << <<"A", <<N(2)>> >>, <<"Y", <<N(3)>> >> >>)>>,
                    <<second, RawCell("NOT", << <<"A", <<N(3)>> >>, <<"Y", <<N(4)>> >> >>)>> >>,
                 << <<"a", <<N(2)>> >>, <<"n", <<N(3)>> >>, <<"y", <<N(4)>> >> >>)>> >>)

\* An inverter whose output net is its own input.
LoopNetlist ==
  JsonDocument(
  << <<"top",
       RawModule(<< <<"y", RawPort("output", <<N(2)>>)>> >>,
                 << <<"u1", RawCell("NOT", << <<"A", <<N(2)>> >>, <<"Y", <<N(2)>> >> >>)>> >>,
                 << <<"y", <<N(2)>> >> >>)>> >>)

\* One cell of n inputs I0 .. I(n-1) and output Y, its connections written
\* output first.
WideNetlist(n) ==
  JsonDocument(
  << <<"top",
       RawModule(<< <<"a", RawPort("input", [k \in 1..n |-> N(1 + k)])>>,
                    <<"y", RawPort("output", <<N(n + 2)>>)>> >>,
                 << <<"u1", RawCell("AND",
                              << <<"Y", <<N(n + 2)>> >> >>
                                \o [k \in 1..n |-> <<"I" \o ToString(k - 1), <<N(1 + k)>> >>])>> >>,
                 << <<"y", <<N(n + 2)>> >>, <<"a", [k \in 1..n |-> N(1 + k)]>> >>)>> >>)

WideLibrary(n) == default_cell_library @@ ("AND" :> CellInfo("AND", "And", 1, n))

\* "top" holds two instances of the module "pair" (a two-bit input port, one
\* NAND) and a buffer.  Constants appear on the parent side of an input, and
\* as the sink of the second instance's output and of the buffer.  Net "b"
\* skips slot 4 and holds a constant bit (it is also an input port), and net
\* "n" is a second name of the bit of "y".
HierNetlist ==
  JsonDocument(
  << <<"top",
       RawModule(<< <<"a", RawPort("input", <<N(2)>>)>>, <<"y", RawPort("output", <<N(5)>>)>>,
                    <<"b", RawPort("input", <<N(3), S("0"), N(6)>>)>> >>,
                 << <<"u1", RawCell("pair", << <<"y", <<N(5)>> >>,
                                               <<"a", <<N(2), S("1")>> >> >>)>>,
                    <<"u2", RawCell("pair", << <<"a", <<N(5), N(2)>> >>,
                                               <<"y", <<S("0")>> >> >>)>>,
                    <<"u3", RawCell("BUF", << <<"A", <<N(2)>> >>, <<"Y", <<S("1")>> >> >>)>> >>,
                 << <<"y", <<N(5)>> >>, <<"a", <<N(2)>> >>,
                    <<"b", <<N(3), S("0"), N(6)>> >>, <<"n", <<N(5)>> >> >>)>>,
     <<"pair",
       RawModule(<< <<"a", RawPort("input", <<N(2), N(3)>>)>>,
                    <<"y", RawPort("output", <<N(4)>>)>> >>,
                 << <<"u1", RawCell("NAND", << <<"A", <<N(2)>> >>, <<"B", <<N(3)>> >>,
                                               <<"Y", <<N(4)>> >> >>)>> >>,
                 << <<"a", <<N(2), N(3)>> >>, <<"y", <<N(4)>> >> >>)>> >>)

\* The chain with an inout port, or with an x or a z bit.
UnsupportedNetlist(what) ==
  JsonDocument(
  << <<"top",
       RawModule(<< <<"a", RawPort("input", <<N(2)>>)>>,
                    <<"io", RawPort(IF what = "inout" THEN "inout" ELSE "output", <<N(4)>>)>> >>,
                 << <<"u1", RawCell("NOT", << <<"A", <<IF what = "x" THEN S("x") ELSE N(2)>> >>,
                                             <<"Y", <<N(4)>> >> >>)>> >>,
                 << <<"a", <<N(2)>> >>,
                    <<"n", <<IF what = "z" THEN S("z") ELSE N(3)>> >>,
                    <<"io", <<N(4)>> >> >>)>> >>)

Netlists ==
  {[raw_json |-> ChainNetlist(names[1], names[2]), cells |-> default_cell_library] :
     names \in {<<"u1", "u2">>, <<"u2", "u1">>}}
    \cup {[raw_json |-> WideNetlist(n), cells |-> WideLibrary(n)] : n \in 1..CONNECTION_SIZE}
    \cup {[raw_json |-> UnsupportedNetlist(what), cells |-> default_cell_library] :
            what \in {"inout", "x", "z"}}
    \cup {[raw_json |-> raw, cells |-> default_cell_library] :
            raw \in {LoopNetlist, HierNetlist, [well_formed |-> FALSE, modules |-> <<>>]}}

InitImport ==
  /\ script \in Netlists
  /\ design = [Design_from_module(HardwareModule_default) EXCEPT !.cell_library = script.cells]
  /\ result = [op |-> "new", err |-> "Ok", log |-> <<>>]
  /\ nested = HardwareModule_default
  /\ net = NoNet
  /\ writes = <<>>
  /\ lastclk = 0
  /\ nops = 0

\* Netlist::from_yosys_raw(raw_json)?.generate_module("top", &cell_library)?,
\* then Design::from_module.
ImportNetlist ==
  /\ result.op = "new"
  /\ \E netlist \in {Netlist_from_yosys_raw(script.raw_json)} :
       IF netlist.err # "Ok"
       THEN Returns("import", netlist.err, <<>>) /\ UNCHANGED design
       ELSE \E r \in {Netlist_generate_module(netlist.val, "top", script.cells)} :
              /\ Returns("import", r.err, <<>>)
              /\ design' = IF r.err = "Ok" THEN [design EXCEPT !.module = r.val] ELSE design
  /\ UNCHANGED <<nested, net, writes, lastclk, script, nops>>

Imported == design.module.name = "top"

ImportLeaves(m) ==
  /\ Imported
  /\ design' = [design EXCEPT !.module = m]
  /\ WithinToggles(m, MaxGateToggles)
  /\ UNCHANGED <<nested, net, writes, lastclk, script, nops>>

ImportEval ==
  ImportLeaves(HardwareModule_eval(design.module)) /\ Returns("eval", "Ok", <<>>)

ImportReset ==
  ImportLeaves(HardwareModule_reset(design.module)) /\ Returns("reset", "Ok", <<>>)

ImportSetPortInt ==
  \E name \in {"a", "b", "y"}, val \in {0, 1, 3} :
    \E r \in {HardwareModule_set_port_int(design.module, name, val, U8)} :
      ImportLeaves(r.module) /\ Returns("set_port_int", r.err, <<name, val>>)

ImportSetSignal ==
  \E idx \in 0..2, val \in Bits :
    \E r \in {HardwareModule_set_signal(design.module, idx, val)} :
      ImportLeaves(r.module) /\ Returns("set_signal", r.err, <<idx, val>>)

ImportGetSignalIdx ==
  /\ Imported
  /\ \E name \in {"a", "a[0]", "b", "b[0]", "b[1]", "b[2]", "n", "y", "top"} :
       \E r \in {HardwareModule_get_signal_idx(design.module, name)} :
         Returns("get_signal_idx", r.err, <<name, r.val>>)
  /\ UNCHANGED <<design, nested, net, writes, lastclk, script, nops>>

NextImport ==
  \/ ImportNetlist
  \/ ImportEval
  \/ ImportReset
  \/ ImportSetPortInt
  \/ ImportSetSignal
  \/ ImportGetSignalIdx

SpecImport == InitImport /\ [][NextImport]_vars


(***************************************************************************)
(* Claims on SpecImport.                                                   *)
(***************************************************************************)
\* The module and every module below it, as a set.
RECURSIVE ModulesOf(_)
ModulesOf(m) ==
  {m} \cup UNION {ModulesOf(m.components[i].module) :
                    i \in {j \in 1..Len(m.components) : m.components[j].type = "Module"}}

ConstantSlots(m) ==
  /\ m.signals[0] = Signal_new_constant(0)
  /\ m.signals[1] = Signal_new_constant(1)
  /\ Signal_get_value(m.signals[0]) = 0
  /\ Signal_get_value(m.signals[1]) = 1
  /\ Signal_get_total_toggle_count(m.signals[0]) = 0
  /\ Signal_get_total_toggle_count(m.signals[1]) = 0

\* C23: in an imported module, and in every module below it, slots 0 and 1
\* are Constant(0) and Constant(1) after the import and after every
\* set_signal, set_port_int, eval and reset, with toggle counts of 0; a
\* set_signal aimed at slot 0 or 1 returns Ok and changes nothing.
C23_ConstantSlots ==
  /\ [](Imported => \A m \in ModulesOf(design.module) : ConstantSlots(m))
  /\ [][(result'.op = "set_signal" /\ result'.log[1] \in {0, 1})
          => (result'.err = "Ok" /\ design' = design)]_vars

\* The two-level module was evaluated with its input high, after a write to
\* the port that holds a constant bit: the second child's output is 1 and its
\* output connection copies it onto slot 0, and the buffer drives slot 1.
C23_Witness ==
  /\ script.raw_json = HierNetlist
  /\ result.op = "eval"
  /\ Signal_get_value(design.module.signals[2]) = 1
  /\ Signal_get_value(design.module.signals[3]) = 1
  /\ Signal_get_value(design.module.components[2].module.signals[4]) = 1


\* The written netlist's top module, its cells in the order of emission.
RawTop == script.raw_json.modules[1][2]

RawIndex(bit) == IF "n" \in DOMAIN bit THEN bit.n ELSE IF bit.s = "1" THEN 1 ELSE 0

ImportedOk == result.op = "import" /\ result.err = "Ok"

Unsupported == {UnsupportedNetlist(what) : what \in {"inout", "x", "z"}}

\* C24: the import of a netlist that holds an inout port, or an x or a z
\* bit, returns the Netlist error and builds no module.
C24_UnsupportedRejected ==
  (result.op = "import" /\ script.raw_json \in Unsupported)
    => (result.err = "Netlist" /\ ~Imported)

\* The connection of the written cell that is named port.
RawConnection(cell, port) ==
  cell.connections[CHOOSE p \in 1..Len(cell.connections) : cell.connections[p][1] = port][2]

\* C25: after an import, component number k is the k-th cell the netlist
\* wrote (a library cell of that type driving that cell's output net, or the
\* module of that type), whatever the instance names, and component_map maps
\* the k-th cell's instance name to that position.
C25_EmissionOrder ==
  ImportedOk =>
    \A k \in 1..Len(RawTop.cells) :
      /\ design.module.component_map[RawTop.cells[k][1]] = k - 1
      /\ IF RawTop.cells[k][2].cell_type \in DOMAIN script.cells
         THEN /\ design.module.components[k].type = "Cell"
              /\ design.module.components[k].cell.name = RawTop.cells[k][2].cell_type
              /\ design.module.components[k].cell.output_connection =
                   RawIndex(RawConnection(RawTop.cells[k][2], "Y")[1])
         ELSE /\ design.module.components[k].type = "Module"
              /\ design.module.components[k].module.name = RawTop.cells[k][2].cell_type

\* The (net, bit) pairs of the written top module that are net indices.
RawNetBits ==
  UNION {{<<n, k>> : k \in {j \in 1..Len(RawTop.netnames[n][2]) :
                              "n" \in DOMAIN RawTop.netnames[n][2][j]}} :
           n \in 1..Len(RawTop.netnames)}

RawSignalName(n, k) ==
  IF Len(RawTop.netnames[n][2]) > 1
  THEN BitName(RawTop.netnames[n][1], k - 1)
  ELSE RawTop.netnames[n][1]

RawSlot(nk) == RawTop.netnames[nk[1]][2][nk[2]].n

FreshNet(s, i) ==
  /\ s.kind = "Net"
  /\ s.index = i
  /\ s.value = 0
  /\ s.toggle_count_rising = 0
  /\ s.toggle_count_falling = 0

\* C26: after an import the signal array has max_net_index + 1 slots; for
\* every named net and every bit k of it that is a net index i, slot i is a
\* Net of index i, value 0, counters 0 and name "<net>[k]" (or "<net>" for a
\* net of one bit), and get_signal_idx of that name is i; every slot no named
\* net refers to is a Constant; get_signal_idx of any other name is
\* MissingSignal.
C26_SignalArray ==
  /\ ImportedOk =>
       /\ DOMAIN design.module.signals =
            0..(CHOOSE x \in {RawSlot(nk) : nk \in RawNetBits} :
                  \A nk \in RawNetBits : RawSlot(nk) <= x)
       /\ \A nk \in RawNetBits :
            /\ FreshNet(design.module.signals[RawSlot(nk)], RawSlot(nk))
            /\ design.module.signals[RawSlot(nk)].name = RawSignalName(nk[1], nk[2])
            /\ HardwareModule_get_signal_idx(design.module, RawSignalName(nk[1], nk[2]))
                 = [err |-> "Ok", val |-> RawSlot(nk)]
       /\ \A i \in DOMAIN design.module.signals \ {RawSlot(nk) : nk \in RawNetBits} :
            design.module.signals[i].kind = "Constant"
  /\ (result.op = "get_signal_idx"
      /\ result.log[1] \notin {RawSignalName(nk[1], nk[2]) : nk \in RawNetBits})
       => result.err = "MissingSignal"

\* C27: the import of a netlist whose cell is a library cell of n inputs
\* succeeds for every n up to CONNECTION_SIZE, and for any library cell of n
\* inputs input_connections[j] is the signal index of connection j in port
\* name order for j < n and output_connection that of connection n.
C27_CellConnections ==
  /\ (result.op = "import" /\ script.raw_json \in {WideNetlist(n) : n \in 1..CONNECTION_SIZE})
       => result.err = "Ok"
  /\ ImportedOk =>
       \A k \in 1..Len(RawTop.cells) :
         RawTop.cells[k][2].cell_type \in DOMAIN script.cells =>
           \E cell \in {design.module.components[
                          design.module.component_map[RawTop.cells[k][1]] + 1].cell},
              sorted \in {BTreeMap_collect(<<>>, RawTop.cells[k][2].connections)} :
             /\ \A j \in 0..(cell.num_inputs - 1) :
                  cell.input_connections[j] = RawIndex(sorted[j + 1][2][1])
             /\ cell.output_connection = RawIndex(sorted[cell.num_inputs + 1][2][1])

RawBitCount(cell) ==
  Cardinality(UNION {{<<p, k>> : k \in 1..Len(cell.connections[p][2])} :
                       p \in 1..Len(cell.connections)})

\* C28: for every cell of the written top module whose type is not in the
\* library the component is a child module, and each bit k of each of the
\* cell's connections has exactly one entry (parent index of the bit, the
\* child port's signal_idx_list[k]), in the child's input_connections when the
\* port is an Input and in its output_connections when it is an Output; the
\* tables hold nothing else, and the top module's own tables are empty.
C28_ChildConnections ==
  Imported =>
    /\ design.module.input_connections = <<>>
    /\ design.module.output_connections = <<>>
    /\ \A c \in 1..Len(RawTop.cells) :
         RawTop.cells[c][2].cell_type \notin DOMAIN script.cells =>
           \E child \in {design.module.components[
                           design.module.component_map[RawTop.cells[c][1]] + 1].module},
              conns \in {RawTop.cells[c][2].connections} :
             /\ Len(child.input_connections) + Len(child.output_connections)
                  = RawBitCount(RawTop.cells[c][2])
             /\ \A p \in 1..Len(conns) :
                  \A k \in 1..Len(conns[p][2]) :
                    \E table \in {IF child.ports[conns[p][1]].direction = "Input"
                                  THEN child.input_connections
                                  ELSE child.output_connections} :
                      Cardinality({i \in 1..Len(table) :
                                     table[i] = <<RawIndex(conns[p][2][k]),
                                                  child.ports[conns[p][1]].signal_idx_list[k]>>})
                        = 1

\* The two-level netlist is imported: the first child has the constant 1 on
\* its second input bit, the second child drives the constant 0.
C28_Witness ==
  /\ script.raw_json = HierNetlist
  /\ ImportedOk
  /\ design.module.components[1].module.input_connections = << <<2, 2>>, <<1, 3>> >>
  /\ design.module.components[1].module.output_connections = << <<5, 4>> >>
  /\ design.module.components[2].module.input_connections = << <<5, 2>>, <<2, 3>> >>
  /\ design.module.components[2].module.output_connections = << <<0, 4>> >>


\* Every signal of `after`, and of the modules below it, has at most one
\* toggle more than the signal of `before` at the same place.
RECURSIVE OneToggleEach(_, _)
OneToggleEach(before, after) ==
  /\ \A i \in DOMAIN before.signals :
       Signal_get_total_toggle_count(after.signals[i])
         <= Signal_get_total_toggle_count(before.signals[i]) + 1
  /\ \A k \in 1..Len(before.components) :
       before.components[k].type = "Module" =>
         OneToggleEach(before.components[k].module, after.components[k].module)

Chains == {ChainNetlist("u1", "u2"), ChainNetlist("u2", "u1")}

\* C29: eval returns without an error and is one pass over the components in
\* their order, each cell evaluated once: no signal of the module or of a
\* module below it toggles more than once; in the two-inverter chain the first
\* component's output is the inverse of its input before the eval and the
\* second's is the inverse of its input after the first has written; and the
\* inverter whose output is its own input flips its net exactly once.
C29_SinglePass ==
  [][result'.op = "eval" =>
       /\ result'.err = "Ok"
       /\ OneToggleEach(design.module, design'.module)
       /\ script.raw_json \in Chains =>
            \E first \in {design.module.components[1].cell},
               second \in {design.module.components[2].cell} :
              /\ design'.module.signals[first.output_connection].value
                   = 1 - design.module.signals[first.input_connections[0]].value
              /\ design'.module.signals[second.output_connection].value
                   = 1 - (IF second.input_connections[0] = first.output_connection
                          THEN design'.module.signals[first.output_connection].value
                          ELSE design.module.signals[second.input_connections[0]].value)
       /\ script.raw_json = LoopNetlist =>
            /\ design'.module.signals[2].value = 1 - design.module.signals[2].value
            /\ Signal_get_total_toggle_count(design'.module.signals[2])
                 = Signal_get_total_toggle_count(design.module.signals[2]) + 1]_vars

\* The looped inverter was evaluated: its net, 0 after the import, reads 1
\* and has toggled once.
C29_Witness ==
  /\ script.raw_json = LoopNetlist
  /\ result.op = "eval"
  /\ design.module.signals[2].value = 1
  /\ Signal_get_total_toggle_count(design.module.signals[2]) = 1


(***************************************************************************)
(* Claims on SpecTree: the fixed point of a combinational tree.            *)
(***************************************************************************)
\* Every cell's output signal reads the cell's function of its input signals
\* as they are now, every child's connected input reads its parent signal and
\* every connected parent signal reads the child's output; the same holds in
\* every child.
RECURSIVE Settled(_)
Settled(m) ==
  \A k \in 1..Len(m.components) :
    IF m.components[k].type = "Cell"
    THEN Signal_get_value(m.signals[m.components[k].cell.output_connection])
           = Cell_output(m.components[k].cell, m.signals).bit
    ELSE \E child \in {m.components[k].module} :
           /\ \A i \in 1..Len(child.input_connections) :
                Signal_get_value(child.signals[child.input_connections[i][2]])
                  = Signal_get_value(m.signals[child.input_connections[i][1]])
           /\ \A i \in 1..Len(child.output_connections) :
                Signal_get_value(m.signals[child.output_connections[i][1]])
                  = Signal_get_value(child.signals[child.output_connections[i][2]])
           /\ Settled(child)

\* C30: in the combinational tree, whose components are in topological
\* order at every level, one eval reaches the fixed point (every cell output
\* is the function of the current inputs, in the parent and in every child),
\* and an eval that follows an eval with no write in between changes no
\* signal value and no toggle counter anywhere in the tree.
C30_FixedPoint ==
  /\ [](result.op = "eval" => Settled(design.module))
  /\ [][(result.op = "eval" /\ result'.op = "eval") => design'.module = design.module]_vars

\* Evaluated with a[1] high: the 1 went through the inverter, the second
\* leaf's buffer and the core below it, and y[1] reads 1.
C30_Witness ==
  /\ design.module.name = "top"
  /\ design.module.components[1].type = "Module"
  /\ design.module.components[1].module.name = "leaf"
  /\ result.op = "eval"
  /\ Signal_get_value(design.module.signals[3]) = 1
  /\ Signal_get_value(design.module.signals[6]) = 0
  /\ Signal_get_value(design.module.signals[5]) = 1
  /\ Signal_get_value(design.module.components[3].module.components[2].module.signals[3]) = 1


(***************************************************************************)
(* SpecWide: a BitVec longer than the integer type it is converted to,     *)
(* read directly (to_int) and as the bits of a port (get_int).  The build  *)
(* profile decides what a shift by the type's width or more does, so each  *)
(* conversion is tried in both.                                            *)
(***************************************************************************)
InitWide ==
  /\ writes \in UNION {[1..n -> Bits] : n \in (U8_BITS + 1)..MaxWideBits}
  /\ result = [op |-> "new", err |-> "Ok", log |-> <<>>]
  /\ design = Design_from_module(HardwareModule_default)
  /\ nested = HardwareModule_default
  /\ net = NoNet
  /\ lastclk = 0
  /\ script = 0
  /\ nops = 0

\* bv.to_int::<T>()
WideToInt ==
  /\ \E T \in {U8, I8}, overflow_checks \in BOOLEAN :
       \E r \in {BitVec_bits_to_int_build(writes, T, overflow_checks)} :
         Returns("to_int", r.err, <<T, r.val>>)
  /\ UNCHANGED <<design, nested, net, writes, lastclk, script, nops>>

\* port.get_int::<T>(&signals) on a port as wide as the BitVec, whose
\* signals hold its bits.
WideGetInt ==
  /\ \E T \in {U8, I8}, overflow_checks \in BOOLEAN :
       \E port \in {Port_new([k \in 1..Len(writes) |-> k + 1], "Output")},
          signals \in {[i \in 0..(Len(writes) + 1) |->
                          IF i < 2 THEN Signal_new_constant(i)
                          ELSE Signal_new_net_from(i, writes[i - 1])]} :
         \E r \in {BitVec_bits_to_int_build(Port_get_bits(port, signals), T,
                                            overflow_checks)} :
           Returns("get_int", r.err, <<T, r.val>>)
  /\ UNCHANGED <<design, nested, net, writes, lastclk, script, nops>>

NextWide ==
  \/ WideToInt
  \/ WideGetInt

SpecWide == InitWide /\ [][NextWide]_vars

\* The value of the low T.bits bits, read as an unsigned number.
LowBitsValue(bits, T) ==
  LET RECURSIVE Sum(_)
      Sum(k) == IF k = T.bits THEN 0 ELSE bits[k + 1] * Pow2(k) + Sum(k + 1)
  IN Sum(0)

\* C31: the conversion of a BitVec longer than the type completes, and for
\* an unsigned type the result is the value of bits[0..W): no bit at a
\* position W or above changes a result bit.
C31_WideTruncates ==
  result.op \in {"to_int", "get_int"} =>
    /\ result.err = "Ok"
    /\ ~result.log[1].signed => result.log[2] = LowBitsValue(writes, result.log[1])


\* The module the path leads to from m, through the first child module of
\* each name; found is FALSE when an element names no child module.
RECURSIVE Descend(_, _)
Descend(m, path) ==
  IF path = <<>> THEN [found |-> TRUE, module |-> m]
  ELSE LET named == {i \in 1..Len(m.components) :
                       /\ m.components[i].type = "Module"
                       /\ m.components[i].module.name = path[1]}
       IN IF named = {} THEN [found |-> FALSE, module |-> m]
          ELSE Descend(m.components[CHOOSE i \in named : \A j \in named : i <= j].module,
                       Tail(path))

\* C32: get_module_port_int with an empty path is get_port_int on the
\* module; with a path it reads the port of the module the path leads to
\* (the first child of each name); a path element that names no child module
\* gives MissingModule, and a port absent from the module reached gives
\* MissingPort.
C32_ModulePortInt ==
  result.op = "get_module_port_int" =>
    /\ result.log[1] = <<>> =>
         [err |-> result.err, val |-> result.log[3]]
           = HardwareModule_get_port_int(design.module, result.log[2], U8)
    /\ IF Descend(design.module, result.log[1]).found
       THEN [err |-> result.err, val |-> result.log[3]]
              = HardwareModule_get_port_int(Descend(design.module, result.log[1]).module,
                                            result.log[2], U8)
       ELSE result.err = "MissingModule"


(***************************************************************************)
(* SpecShift: two DFF_POSEDGE cells on one clock, the output net "q1" of   *)
(* the first being the data input of the second, with the two cells in     *)
(* either component order.  The clock is bound to "clk".                   *)
(***************************************************************************)
ShiftModule(first_leads) ==
  LET signals == NetlistSignals(<<"clk", "d", "q1", "q2">>)
      first == LibCell("DFF", "DffPosEdge", <<2, 3>>, 4)
      second == LibCell("DFF", "DffPosEdge", <<2, 4>>, 5)
  IN [HardwareModule_default EXCEPT
        !.name = "top",
        !.ports = ("clk" :> Port_new(<<2>>, "Input")) @@ ("d" :> Port_new(<<3>>, "Input"))
                    @@ ("q2" :> Port_new(<<5>>, "Output")),
        !.signals = signals,
        !.signal_map = SignalMap(signals),
        !.components = IF first_leads THEN <<first, second>> ELSE <<second, first>>]

InitShift ==
  /\ design \in {Design_set_clock(Design_from_module(ShiftModule(first_leads)), "clk").design :
                   first_leads \in BOOLEAN}
  /\ result = [op |-> "new", err |-> "Ok", log |-> <<>>]
  /\ nested = HardwareModule_default
  /\ net = NoNet
  /\ writes = <<>>
  /\ lastclk = 0
  /\ script = 0
  /\ nops = 0

ShiftSetPortInt ==
  \E val \in Bits :
    \E r \in {HardwareModule_set_port_int(design.module, "d", val, U8)} :
      Leaves([design EXCEPT !.module = r.module]) /\ Returns("set_port_int", r.err, <<val>>)

\* design.eval_clocked(); the log keeps the first DFF's output and the clock
\* net as they were before the call.
ShiftEvalClocked ==
  \E r \in {Design_eval_clocked(design)} :
    /\ Leaves([design EXCEPT !.module = r.module])
    /\ Returns("eval_clocked", r.err, <<Signal_get_value(design.module.signals[4]),
                                        Signal_get_value(design.module.signals[2])>>)

\* set_signal on the clock net or on the data input.
ShiftSetSignal ==
  \E idx \in {2, 3}, val \in Bits :
    \E r \in {HardwareModule_set_signal(design.module, idx, val)} :
      Leaves([design EXCEPT !.module = r.module]) /\ Returns("set_signal", r.err, <<idx, val>>)

ShiftEval ==
  /\ Leaves([design EXCEPT !.module = HardwareModule_eval(@)])
  /\ Returns("eval", "Ok", <<>>)

ShiftReset ==
  /\ Leaves([design EXCEPT !.module = HardwareModule_reset(@)])
  /\ Returns("reset", "Ok", <<>>)

NextShift ==
  \/ ShiftSetPortInt
  \/ ShiftEvalClocked
  \/ ShiftSetSignal
  \/ ShiftEval
  \/ ShiftReset

SpecShift == InitShift /\ [][NextShift]_vars

\* C33: after an eval_clocked entered with the clock net low, the second
\* DFF's output is the first DFF's output of before the call, in either
\* component order.
C33_OneStagePerClock ==
  (result.op = "eval_clocked" /\ result.err = "Ok" /\ result.log[2] = 0)
    => Signal_get_value(design.module.signals[5]) = result.log[1]


\* C34: every Net, created with value 0, has rising count - falling count
\* equal to its value in every state reached by set_signal, set_port_int,
\* eval, eval_clocked and reset in any order.
C34_CountersTrackValue ==
  \A m \in ModulesOf(design.module) :
    \A i \in DOMAIN m.signals :
      m.signals[i].kind = "Net" =>
        Signal_get_toggle_count_rising(m.signals[i])
          - Signal_get_toggle_count_falling(m.signals[i])
          = Signal_get_value(m.signals[i])

\* The data input rose, fell and rose again, and a clock pulse carried the 1
\* into the first DFF.
C34_Witness ==
  /\ result.op = "eval_clocked"
  /\ Signal_get_toggle_count_rising(design.module.signals[3]) = 2
  /\ Signal_get_toggle_count_falling(design.module.signals[3]) = 1
  /\ Signal_get_toggle_count_rising(design.module.signals[2]) = 1
  /\ Signal_get_toggle_count_falling(design.module.signals[2]) = 1
  /\ Signal_get_value(design.module.signals[4]) = 1


\* C35: an eval_clocked or a reset_clocked that returns an error leaves
\* every signal value, toggle counter and cell state of the design as it was
\* before the call.
C35_ErrorLeavesDesign ==
  [][(result'.op \in {"eval_clocked", "reset_clocked"} /\ result'.err # "Ok")
       => design'.module = design.module]_vars


(***************************************************************************)
(* SpecPyShape: the Python binding's set_port_shape, called again and      *)
(* again on the four-bit ports of the buffer, and on a port that is absent.*)
(***************************************************************************)
PySetPortShape ==
  /\ \E name \in {"a", "y", "q"}, shape \in Shapes :
       \E r \in {PyDesign_set_port_shape(design.module, name, shape)} :
         /\ design' = [design EXCEPT !.module = r.module]
         /\ Returns("set_port_shape", r.err, <<name, shape>>)
  /\ UNCHANGED <<nested, net, writes, lastclk, script, nops>>

PyGetPortShape ==
  /\ \E name \in {"a", "y", "q"} :
       \E r \in {PyDesign_get_port_shape(design.module, name)} :
         Returns("get_port_shape", r.err, <<name, r.val>>)
  /\ UNCHANGED <<design, nested, net, writes, lastclk, script, nops>>

NextPyShape ==
  \/ PySetPortShape
  \/ PyGetPortShape

SpecPyShape == InitShape /\ [][NextPyShape]_vars

\* C36: set_port_shape(name, [1, n]) of the binding succeeds for every n
\* that divides the port's width W and leaves the shape [n, W/n], whatever
\* the shape was before; a shape whose first entry is not 1 is rejected and
\* the shape stays.
C36_PyShape ==
  [][result'.op = "set_port_shape" /\ result'.log[1] \in DOMAIN design.module.ports
       => \E name \in {result'.log[1]}, shape \in {result'.log[2]} :
            \E W \in {Len(design.module.ports[name].signal_idx_list)} :
              /\ (shape[1] = 1 /\ shape[2] > 0 /\ W % shape[2] = 0)
                   => /\ result'.err = "Ok"
                      /\ design'.module.ports[name].shape = <<shape[2], W \div shape[2]>>
              /\ shape[1] # 1
                   => /\ result'.err # "Ok"
                      /\ design'.module.ports[name].shape
                           = design.module.ports[name].shape]_vars

====
